---- MODULE Spec2Model ----
(***************************************************************************)
(* A model of the WE32100 core of dmd_core: the instruction decoder, the   *)
(* operand engine (effective_address / read_op / write_op) and step, over  *)
(* a RAM-backed bus.                                                       *)
(***************************************************************************)
EXTENDS Integers, Sequences, FiniteSets, TLC

VARIABLES
  r,                \* Cpu.r: the 16 registers, r[0] .. r[15], each a u32
  mem,              \* the bus's RAM: address -> non-zero byte (absent = 0)
  overflow_checks,  \* the build: TRUE = `+` on u32 panics on overflow (debug)
  calls,            \* number of calls made so far in this run
  last,             \* what the last call was given and what it returned
  duart,            \* the Duart: its two ports and its registers
  now,              \* the monotonic clock, in nanoseconds
  sent              \* the bytes the transmit callback was given, in order

vars == <<r, mem, overflow_checks, calls, last, duart, now, sent>>

\* The processor with its bus, and the device with the clock
cpu_vars == <<r, mem, overflow_checks>>
duart_vars == <<duart, now, sent>>

-----------------------------------------------------------------------------
(* Bounds of the model *)

\* Number of calls (step, set_pc, read_op, ...) made in one run.
MaxCalls == 2

\* The number of calls made in one run of the flag setters and reset
MaxPswCalls == 3

\* The number of calls made on the device, and of waits, in one run
MaxDuartCalls == 2

\* The number of commands written in one run of commands
MaxCommandCalls == 1

\* The number of bytes the program writes to THRA in one run of transmissions
MaxTransmits == 2

-----------------------------------------------------------------------------
(* Program constants *)

MemSize == 65536   \* Mem::new(0, 0x10000, false): RAM is [0, 0x10000)

R_FP == 9
R_AP == 10
R_PSW == 11
R_SP == 12
R_PCBP == 13
R_ISP == 14
R_PC == 15

HWORD_OP_COUNT == 11

\* Option<T>: None is the empty sequence, Some(v) the one-element sequence.
None == <<>>
Some(v) == <<v>>
IsSome(o) == Len(o) = 1
Unwrap(o) == o[1]

\* enum Data
Data == {"None", "Byte", "Half", "Word", "SByte", "UHalf", "UWord"}

\* enum AddrMode
AddrMode ==
  {"None", "Absolute", "AbsoluteDeferred", "ByteDisplacement",
   "ByteDisplacementDeferred", "HalfwordDisplacement",
   "HalfwordDisplacementDeferred", "WordDisplacement",
   "WordDisplacementDeferred", "APShortOffset", "FPShortOffset",
   "ByteImmediate", "HalfwordImmediate", "WordImmediate", "PositiveLiteral",
   "NegativeLiteral", "Register", "RegisterDeferred", "Expanded"}

\* enum OpType
OpType == {"Lit", "Src", "Dest"}

-----------------------------------------------------------------------------
(* u32 values, casts and extensions.  A u32 is held as its two 16-bit      *)
(* halves, [hi, lo], standing for hi * 2^16 + lo; a u8 or a u16 is a       *)
(* number.                                                                 *)

W(hi, lo) == [hi |-> hi, lo |-> lo]

\* `x as u8`, `x as u16` of a u32 x: truncation to the low bits
AsU8(x) == x.lo % 256
AsU16(x) == x.lo

\* A usize that holds an address of the bus is held in halves as well,
\* [hi, lo], and as it is 64 bits wide its hi half can pass 2^16.
\* `x as usize` of a u32 x: the same value
AsUsize(x) == W(x.hi, x.lo)

\* a + n on usize, n a small number: no u32 plus n overflows 64 bits
UsizeAdd(a, n) == W(a.hi + (a.lo + n) \div 65536, (a.lo + n) % 65536)

\* ((data as i16) as i32) as u32
sign_extend_halfword(data) ==
  IF data >= 32768 THEN W(65535, data) ELSE W(0, data)

\* data as u32
zero_extend_halfword(data) == W(0, data)

\* ((data as i8) as i32) as u32
sign_extend_byte(data) ==
  IF data >= 128 THEN W(65535, 65280 + data) ELSE W(0, data)

\* data as u32
zero_extend_byte(data) == W(0, data)

\* struct Operand, as Operand::new builds it
Operand(size, mode, data_type, expanded_type, register, embedded) ==
  [size |-> size, mode |-> mode, data_type |-> data_type,
   expanded_type |-> expanded_type, register |-> register,
   embedded |-> embedded]

\* A data_type() that ignores the expanded type
IntrinsicDataType(op) == op.data_type

\* Operand::data_type(): the expanded type if there is one, else the intrinsic
OperandDataType(op) ==
  IF IsSome(op.expanded_type) THEN Unwrap(op.expanded_type) ELSE op.data_type

-----------------------------------------------------------------------------
(* The bus: RAM at [0, MemSize), little-endian, aligned half and word     *)
(* access.  An address is a usize; a place in RAM is a number; a byte is   *)
(* 0..255, a halfword 0..65535, a word a u32.                              *)

\* The byte RAM holds at place i
Peek(m, i) == IF i \in DOMAIN m THEN m[i] ELSE 0

\* RAM m with byte v stored at place i (zero bytes are not stored)
Poke(m, i, v) ==
  [x \in {y \in (DOMAIN m) \cup {i} : (IF y = i THEN v ELSE m[y]) # 0} |->
     IF x = i THEN v ELSE m[x]]

\* Address a lies in the RAM's range [0, MemSize)
InRam(a) ==
  \/ a.hi < MemSize \div 65536
  \/ a.hi = MemSize \div 65536 /\ a.lo < MemSize % 65536

\* The place in RAM of an address in its range: a - range.start
Place(a) == a.hi * 65536 + a.lo

BusOk(v) == [ok |-> TRUE, val |-> v]
BusErr == [ok |-> FALSE, val |-> 0]

read_byte(m, a) ==
  IF InRam(a) THEN BusOk(Peek(m, Place(a))) ELSE BusErr

read_half_unaligned(m, a) ==
  IF InRam(UsizeAdd(a, 1))
  THEN BusOk(Peek(m, Place(a)) + 256 * Peek(m, Place(a) + 1))
  ELSE BusErr

read_word_unaligned(m, a) ==
  IF InRam(UsizeAdd(a, 3))
  THEN BusOk(W(Peek(m, Place(a) + 2) + 256 * Peek(m, Place(a) + 3),
               Peek(m, Place(a)) + 256 * Peek(m, Place(a) + 1)))
  ELSE [ok |-> FALSE, val |-> W(0, 0)]

read_half(m, a) ==
  IF a.lo % 2 # 0 THEN BusErr ELSE read_half_unaligned(m, a)

read_word(m, a) ==
  IF a.lo % 4 # 0 THEN [ok |-> FALSE, val |-> W(0, 0)]
  ELSE read_word_unaligned(m, a)

\* The writes return the RAM after the write in val.
write_byte(m, a, v) ==
  IF InRam(a) THEN BusOk(Poke(m, Place(a), v)) ELSE [ok |-> FALSE, val |-> m]

write_half(m, a, v) ==
  IF a.lo % 2 = 0 /\ InRam(UsizeAdd(a, 1))
  THEN BusOk(Poke(Poke(m, Place(a), v % 256), Place(a) + 1, v \div 256))
  ELSE [ok |-> FALSE, val |-> m]

write_word(m, a, v) ==
  IF a.lo % 4 = 0 /\ InRam(UsizeAdd(a, 3))
  THEN BusOk(Poke(Poke(Poke(Poke(m, Place(a), v.lo % 256),
                            Place(a) + 1, v.lo \div 256),
                       Place(a) + 2, v.hi % 256),
                  Place(a) + 3, v.hi \div 256))
  ELSE [ok |-> FALSE, val |-> m]

\* Bus::load: RAM m with the bytes of sequence bytes stored from place base
RECURSIVE load(_, _, _)
load(m, base, bytes) ==
  IF bytes = <<>> THEN m
  ELSE load(Poke(m, base, Head(bytes)), base + 1, Tail(bytes))

-----------------------------------------------------------------------------
(* The opcode tables *)

\* HALFWORD_OPCODES: the eleven opcodes that follow a 0x30 byte
HALFWORD_OPCODES ==
  <<
    [opcode |-> 9,   dtype |-> "None", name |-> "MVERNO",  ops |-> <<>>],
    [opcode |-> 13,  dtype |-> "None", name |-> "ENBVJMP", ops |-> <<>>],
    [opcode |-> 19,  dtype |-> "None", name |-> "DISVJMP", ops |-> <<>>],
    [opcode |-> 25,  dtype |-> "None", name |-> "MOVBLW",  ops |-> <<>>],
    [opcode |-> 31,  dtype |-> "None", name |-> "STREND",  ops |-> <<>>],
    [opcode |-> 47,  dtype |-> "None", name |-> "INTACK",  ops |-> <<>>],
    [opcode |-> 63,  dtype |-> "None", name |-> "STRCPY",  ops |-> <<>>],
    [opcode |-> 69,  dtype |-> "None", name |-> "RETG",    ops |-> <<>>],
    [opcode |-> 97,  dtype |-> "None", name |-> "GATE",    ops |-> <<>>],
    [opcode |-> 172, dtype |-> "None", name |-> "CALLPS",  ops |-> <<>>],
    [opcode |-> 200, dtype |-> "None", name |-> "RETPS",   ops |-> <<>>]
  >>

\* OPCODES: the 256 primary opcodes; entry b is OPCODES[b + 1]
OPCODES ==
  <<
    [opcode |-> 0, dtype |-> "None", name |-> "halt", ops |-> <<>>],
    [opcode |-> 1, dtype |-> "None", name |-> "???", ops |-> <<>>],
    [opcode |-> 2, dtype |-> "Word", name |-> "SPOPRD", ops |-> <<"Lit", "Src">>],
    [opcode |-> 3, dtype |-> "Word", name |-> "SPOPRD2", ops |-> <<"Lit", "Src", "Dest">>],
    [opcode |-> 4, dtype |-> "Word", name |-> "MOVAW", ops |-> <<"Src", "Dest">>],
    [opcode |-> 5, dtype |-> "None", name |-> "???", ops |-> <<>>],
    [opcode |-> 6, dtype |-> "Word", name |-> "SPOPRT", ops |-> <<"Lit", "Src">>],
    [opcode |-> 7, dtype |-> "Word", name |-> "SPOPT2", ops |-> <<"Lit", "Src", "Dest">>],
    [opcode |-> 8, dtype |-> "None", name |-> "RET", ops |-> <<>>],
    [opcode |-> 9, dtype |-> "None", name |-> "???", ops |-> <<>>],
    [opcode |-> 10, dtype |-> "None", name |-> "???", ops |-> <<>>],
    [opcode |-> 11, dtype |-> "None", name |-> "???", ops |-> <<>>],
    [opcode |-> 12, dtype |-> "Word", name |-> "MOVTRW", ops |-> <<"Src", "Dest">>],
    [opcode |-> 13, dtype |-> "None", name |-> "???", ops |-> <<>>],
    [opcode |-> 14, dtype |-> "None", name |-> "???", ops |-> <<>>],
    [opcode |-> 15, dtype |-> "None", name |-> "???", ops |-> <<>>],
    [opcode |-> 16, dtype |-> "Word", name |-> "SAVE", ops |-> <<"Src">>],
    [opcode |-> 17, dtype |-> "None", name |-> "???", ops |-> <<>>],
    [opcode |-> 18, dtype |-> "None", name |-> "???", ops |-> <<>>],
    [opcode |-> 19, dtype |-> "Word", name |-> "SPOPWD", ops |-> <<"Lit", "Dest">>],
    [opcode |-> 20, dtype |-> "Byte", name |-> "EXTOP", ops |-> <<>>],
    [opcode |-> 21, dtype |-> "None", name |-> "???", ops |-> <<>>],
    [opcode |-> 22, dtype |-> "None", name |-> "???", ops |-> <<>>],
    [opcode |-> 23, dtype |-> "Word", name |-> "SPOPWT", ops |-> <<"Lit", "Dest">>],
    [opcode |-> 24, dtype |-> "None", name |-> "RESTORE", ops |-> <<"Src">>],
    [opcode |-> 25, dtype |-> "None", name |-> "???", ops |-> <<>>],
    [opcode |-> 26, dtype |-> "None", name |-> "???", ops |-> <<>>],
    [opcode |-> 27, dtype |-> "None", name |-> "???", ops |-> <<>>],
    [opcode |-> 28, dtype |-> "Word", name |-> "SWAPWI", ops |-> <<"Dest">>],
    [opcode |-> 29, dtype |-> "None", name |-> "???", ops |-> <<>>],
    [opcode |-> 30, dtype |-> "Half", name |-> "SWAPHI", ops |-> <<"Dest">>],
    [opcode |-> 31, dtype |-> "Byte", name |-> "SWAPBI", ops |-> <<"Dest">>],
    [opcode |-> 32, dtype |-> "Word", name |-> "POPW", ops |-> <<"Src">>],
    [opcode |-> 33, dtype |-> "None", name |-> "???", ops |-> <<>>],
    [opcode |-> 34, dtype |-> "Word", name |-> "SPOPRS", ops |-> <<"Lit", "Src">>],
    [opcode |-> 35, dtype |-> "Word", name |-> "SPOPS2", ops |-> <<"Lit", "Src", "Dest">>],
    [opcode |-> 36, dtype |-> "Word", name |-> "JMP", ops |-> <<"Dest">>],
    [opcode |-> 37, dtype |-> "None", name |-> "???", ops |-> <<>>],
    [opcode |-> 38, dtype |-> "None", name |-> "???", ops |-> <<>>],
    [opcode |-> 39, dtype |-> "None", name |-> "CFLUSH", ops |-> <<>>],
    [opcode |-> 40, dtype |-> "Word", name |-> "TSTW", ops |-> <<"Src">>],
    [opcode |-> 41, dtype |-> "None", name |-> "???", ops |-> <<>>],
    [opcode |-> 42, dtype |-> "Half", name |-> "TSTH", ops |-> <<"Src">>],
    [opcode |-> 43, dtype |-> "Byte", name |-> "TSTB", ops |-> <<"Src">>],
    [opcode |-> 44, dtype |-> "Word", name |-> "CALL", ops |-> <<"Src", "Dest">>],
    [opcode |-> 45, dtype |-> "None", name |-> "???", ops |-> <<>>],
    [opcode |-> 46, dtype |-> "None", name |-> "BPT", ops |-> <<>>],
    [opcode |-> 47, dtype |-> "None", name |-> "WAIT", ops |-> <<>>],
    [opcode |-> 48, dtype |-> "None", name |-> "???", ops |-> <<>>],
    [opcode |-> 49, dtype |-> "None", name |-> "???", ops |-> <<>>],
    [opcode |-> 50, dtype |-> "Word", name |-> "SPOP", ops |-> <<"Lit">>],
    [opcode |-> 51, dtype |-> "Word", name |-> "SPOPWS", ops |-> <<"Lit", "Dest">>],
    [opcode |-> 52, dtype |-> "Word", name |-> "JSB", ops |-> <<"Dest">>],
    [opcode |-> 53, dtype |-> "None", name |-> "???", ops |-> <<>>],
    [opcode |-> 54, dtype |-> "Half", name |-> "BSBH", ops |-> <<"Lit">>],
    [opcode |-> 55, dtype |-> "Byte", name |-> "BSBB", ops |-> <<"Lit">>],
    [opcode |-> 56, dtype |-> "Word", name |-> "BITW", ops |-> <<"Src", "Src">>],
    [opcode |-> 57, dtype |-> "None", name |-> "???", ops |-> <<>>],
    [opcode |-> 58, dtype |-> "Half", name |-> "BITH", ops |-> <<"Src", "Src">>],
    [opcode |-> 59, dtype |-> "Byte", name |-> "BITB", ops |-> <<"Src", "Src">>],
    [opcode |-> 60, dtype |-> "Word", name |-> "CMPW", ops |-> <<"Src", "Src">>],
    [opcode |-> 61, dtype |-> "None", name |-> "???", ops |-> <<>>],
    [opcode |-> 62, dtype |-> "Half", name |-> "CMPH", ops |-> <<"Src", "Src">>],
    [opcode |-> 63, dtype |-> "Byte", name |-> "CMPB", ops |-> <<"Src", "Src">>],
    [opcode |-> 64, dtype |-> "None", name |-> "RGEQ", ops |-> <<>>],
    [opcode |-> 65, dtype |-> "None", name |-> "???", ops |-> <<>>],
    [opcode |-> 66, dtype |-> "Half", name |-> "BGEH", ops |-> <<"Lit">>],
    [opcode |-> 67, dtype |-> "Byte", name |-> "BGEB", ops |-> <<"Lit">>],
    [opcode |-> 68, dtype |-> "None", name |-> "RGTR", ops |-> <<>>],
    [opcode |-> 69, dtype |-> "None", name |-> "???", ops |-> <<>>],
    [opcode |-> 70, dtype |-> "Half", name |-> "BGH", ops |-> <<"Lit">>],
    [opcode |-> 71, dtype |-> "Byte", name |-> "BGB", ops |-> <<"Lit">>],
    [opcode |-> 72, dtype |-> "None", name |-> "RLSS", ops |-> <<>>],
    [opcode |-> 73, dtype |-> "None", name |-> "???", ops |-> <<>>],
    [opcode |-> 74, dtype |-> "Half", name |-> "BLH", ops |-> <<"Lit">>],
    [opcode |-> 75, dtype |-> "Byte", name |-> "BLB", ops |-> <<"Lit">>],
    [opcode |-> 76, dtype |-> "None", name |-> "RLEQ", ops |-> <<>>],
    [opcode |-> 77, dtype |-> "None", name |-> "???", ops |-> <<>>],
    [opcode |-> 78, dtype |-> "Half", name |-> "BLEH", ops |-> <<"Lit">>],
    [opcode |-> 79, dtype |-> "Byte", name |-> "BLEB", ops |-> <<"Lit">>],
    [opcode |-> 80, dtype |-> "None", name |-> "RGEQU", ops |-> <<>>],
    [opcode |-> 81, dtype |-> "None", name |-> "???", ops |-> <<>>],
    [opcode |-> 82, dtype |-> "Half", name |-> "BGEUH", ops |-> <<"Lit">>],
    [opcode |-> 83, dtype |-> "Byte", name |-> "BGEUB", ops |-> <<"Lit">>],
    [opcode |-> 84, dtype |-> "None", name |-> "RGTRU", ops |-> <<>>],
    [opcode |-> 85, dtype |-> "None", name |-> "???", ops |-> <<>>],
    [opcode |-> 86, dtype |-> "Half", name |-> "BGUH", ops |-> <<"Lit">>],
    [opcode |-> 87, dtype |-> "Byte", name |-> "BGUB", ops |-> <<"Lit">>],
    [opcode |-> 88, dtype |-> "None", name |-> "RLSSU", ops |-> <<>>],
    [opcode |-> 89, dtype |-> "None", name |-> "???", ops |-> <<>>],
    [opcode |-> 90, dtype |-> "Half", name |-> "BLUH", ops |-> <<"Lit">>],
    [opcode |-> 91, dtype |-> "Byte", name |-> "BLUB", ops |-> <<"Lit">>],
    [opcode |-> 92, dtype |-> "None", name |-> "RLEQU", ops |-> <<>>],
    [opcode |-> 93, dtype |-> "None", name |-> "???", ops |-> <<>>],
    [opcode |-> 94, dtype |-> "Half", name |-> "BLEUH", ops |-> <<"Lit">>],
    [opcode |-> 95, dtype |-> "Byte", name |-> "BLEUB", ops |-> <<"Lit">>],
    [opcode |-> 96, dtype |-> "None", name |-> "RVC", ops |-> <<>>],
    [opcode |-> 97, dtype |-> "None", name |-> "???", ops |-> <<>>],
    [opcode |-> 98, dtype |-> "Half", name |-> "BVCH", ops |-> <<"Lit">>],
    [opcode |-> 99, dtype |-> "Byte", name |-> "BVCB", ops |-> <<"Lit">>],
    [opcode |-> 100, dtype |-> "None", name |-> "RNEQU", ops |-> <<>>],
    [opcode |-> 101, dtype |-> "None", name |-> "???", ops |-> <<>>],
    [opcode |-> 102, dtype |-> "Half", name |-> "BNEH", ops |-> <<"Lit">>],
    [opcode |-> 103, dtype |-> "Byte", name |-> "BNEB", ops |-> <<"Lit">>],
    [opcode |-> 104, dtype |-> "None", name |-> "RVS", ops |-> <<>>],
    [opcode |-> 105, dtype |-> "None", name |-> "???", ops |-> <<>>],
    [opcode |-> 106, dtype |-> "Half", name |-> "BVSH", ops |-> <<"Lit">>],
    [opcode |-> 107, dtype |-> "Byte", name |-> "BVSB", ops |-> <<"Lit">>],
    [opcode |-> 108, dtype |-> "None", name |-> "REQLU", ops |-> <<>>],
    [opcode |-> 109, dtype |-> "None", name |-> "???", ops |-> <<>>],
    [opcode |-> 110, dtype |-> "Half", name |-> "BEH", ops |-> <<"Lit">>],
    [opcode |-> 111, dtype |-> "Byte", name |-> "BEB", ops |-> <<"Lit">>],
    [opcode |-> 112, dtype |-> "None", name |-> "NOP", ops |-> <<>>],
    [opcode |-> 113, dtype |-> "None", name |-> "???", ops |-> <<>>],
    [opcode |-> 114, dtype |-> "None", name |-> "NOP3", ops |-> <<>>],
    [opcode |-> 115, dtype |-> "None", name |-> "NOP2", ops |-> <<>>],
    [opcode |-> 116, dtype |-> "None", name |-> "RNEQ", ops |-> <<>>],
    [opcode |-> 117, dtype |-> "None", name |-> "???", ops |-> <<>>],
    [opcode |-> 118, dtype |-> "Half", name |-> "BNEH", ops |-> <<"Lit">>],
    [opcode |-> 119, dtype |-> "Byte", name |-> "BNEB", ops |-> <<"Lit">>],
    [opcode |-> 120, dtype |-> "None", name |-> "RSB", ops |-> <<>>],
    [opcode |-> 121, dtype |-> "None", name |-> "???", ops |-> <<>>],
    [opcode |-> 122, dtype |-> "Half", name |-> "BRH", ops |-> <<"Lit">>],
    [opcode |-> 123, dtype |-> "Byte", name |-> "BRB", ops |-> <<"Lit">>],
    [opcode |-> 124, dtype |-> "None", name |-> "REQL", ops |-> <<>>],
    [opcode |-> 125, dtype |-> "None", name |-> "???", ops |-> <<>>],
    [opcode |-> 126, dtype |-> "Half", name |-> "BEH", ops |-> <<"Lit">>],
    [opcode |-> 127, dtype |-> "Byte", name |-> "BEB", ops |-> <<"Lit">>],
    [opcode |-> 128, dtype |-> "Word", name |-> "CLRW", ops |-> <<"Dest">>],
    [opcode |-> 129, dtype |-> "None", name |-> "???", ops |-> <<>>],
    [opcode |-> 130, dtype |-> "Half", name |-> "CLRH", ops |-> <<"Dest">>],
    [opcode |-> 131, dtype |-> "Byte", name |-> "CLRB", ops |-> <<"Dest">>],
    [opcode |-> 132, dtype |-> "Word", name |-> "MOVW", ops |-> <<"Src", "Dest">>],
    [opcode |-> 133, dtype |-> "None", name |-> "???", ops |-> <<>>],
    [opcode |-> 134, dtype |-> "Half", name |-> "MOVH", ops |-> <<"Src", "Dest">>],
    [opcode |-> 135, dtype |-> "Byte", name |-> "MOVB", ops |-> <<"Src", "Dest">>],
    [opcode |-> 136, dtype |-> "Word", name |-> "MCOMW", ops |-> <<"Src", "Dest">>],
    [opcode |-> 137, dtype |-> "None", name |-> "???", ops |-> <<>>],
    [opcode |-> 138, dtype |-> "Half", name |-> "MCOMH", ops |-> <<"Src", "Dest">>],
    [opcode |-> 139, dtype |-> "Byte", name |-> "MCOMB", ops |-> <<"Src", "Dest">>],
    [opcode |-> 140, dtype |-> "Word", name |-> "MNEGW", ops |-> <<"Src", "Dest">>],
    [opcode |-> 141, dtype |-> "None", name |-> "???", ops |-> <<>>],
    [opcode |-> 142, dtype |-> "Half", name |-> "MNEGH", ops |-> <<"Src", "Dest">>],
    [opcode |-> 143, dtype |-> "Byte", name |-> "MNEGB", ops |-> <<"Src", "Dest">>],
    [opcode |-> 144, dtype |-> "Word", name |-> "INCW", ops |-> <<"Dest">>],
    [opcode |-> 145, dtype |-> "None", name |-> "???", ops |-> <<>>],
    [opcode |-> 146, dtype |-> "Half", name |-> "INCH", ops |-> <<"Dest">>],
    [opcode |-> 147, dtype |-> "Byte", name |-> "INCB", ops |-> <<"Dest">>],
    [opcode |-> 148, dtype |-> "Word", name |-> "DECW", ops |-> <<"Dest">>],
    [opcode |-> 149, dtype |-> "None", name |-> "???", ops |-> <<>>],
    [opcode |-> 150, dtype |-> "Half", name |-> "DECH", ops |-> <<"Dest">>],
    [opcode |-> 151, dtype |-> "Byte", name |-> "DECB", ops |-> <<"Dest">>],
    [opcode |-> 152, dtype |-> "None", name |-> "???", ops |-> <<>>],
    [opcode |-> 153, dtype |-> "None", name |-> "???", ops |-> <<>>],
    [opcode |-> 154, dtype |-> "None", name |-> "???", ops |-> <<>>],
    [opcode |-> 155, dtype |-> "None", name |-> "???", ops |-> <<>>],
    [opcode |-> 156, dtype |-> "Word", name |-> "ADDW2", ops |-> <<"Src", "Dest">>],
    [opcode |-> 157, dtype |-> "None", name |-> "???", ops |-> <<>>],
    [opcode |-> 158, dtype |-> "Half", name |-> "ADDH2", ops |-> <<"Src", "Dest">>],
    [opcode |-> 159, dtype |-> "Byte", name |-> "ADDB2", ops |-> <<"Src", "Dest">>],
    [opcode |-> 160, dtype |-> "Word", name |-> "PUSHW", ops |-> <<"Src">>],
    [opcode |-> 161, dtype |-> "None", name |-> "???", ops |-> <<>>],
    [opcode |-> 162, dtype |-> "None", name |-> "???", ops |-> <<>>],
    [opcode |-> 163, dtype |-> "None", name |-> "???", ops |-> <<>>],
    [opcode |-> 164, dtype |-> "Word", name |-> "MODW2", ops |-> <<"Src", "Dest">>],
    [opcode |-> 165, dtype |-> "None", name |-> "???", ops |-> <<>>],
    [opcode |-> 166, dtype |-> "Half", name |-> "MODH2", ops |-> <<"Src", "Dest">>],
    [opcode |-> 167, dtype |-> "Byte", name |-> "MODB2", ops |-> <<"Src", "Dest">>],
    [opcode |-> 168, dtype |-> "Word", name |-> "MULW2", ops |-> <<"Src", "Dest">>],
    [opcode |-> 169, dtype |-> "None", name |-> "???", ops |-> <<>>],
    [opcode |-> 170, dtype |-> "Half", name |-> "MULH2", ops |-> <<"Src", "Dest">>],
    [opcode |-> 171, dtype |-> "Byte", name |-> "MULB2", ops |-> <<"Src", "Dest">>],
    [opcode |-> 172, dtype |-> "Word", name |-> "DIVW2", ops |-> <<"Src", "Dest">>],
    [opcode |-> 173, dtype |-> "None", name |-> "???", ops |-> <<>>],
    [opcode |-> 174, dtype |-> "Half", name |-> "DIVH2", ops |-> <<"Src", "Dest">>],
    [opcode |-> 175, dtype |-> "Byte", name |-> "DIVB2", ops |-> <<"Src", "Dest">>],
    [opcode |-> 176, dtype |-> "Word", name |-> "ORW2", ops |-> <<"Src", "Dest">>],
    [opcode |-> 177, dtype |-> "None", name |-> "???", ops |-> <<>>],
    [opcode |-> 178, dtype |-> "Half", name |-> "ORH2", ops |-> <<"Src", "Dest">>],
    [opcode |-> 179, dtype |-> "Byte", name |-> "ORB2", ops |-> <<"Src", "Dest">>],
    [opcode |-> 180, dtype |-> "Word", name |-> "XORW2", ops |-> <<"Src", "Dest">>],
    [opcode |-> 181, dtype |-> "None", name |-> "???", ops |-> <<>>],
    [opcode |-> 182, dtype |-> "Half", name |-> "XORH2", ops |-> <<"Src", "Dest">>],
    [opcode |-> 183, dtype |-> "Byte", name |-> "XORB2", ops |-> <<"Src", "Dest">>],
    [opcode |-> 184, dtype |-> "Word", name |-> "ANDW2", ops |-> <<"Src", "Dest">>],
    [opcode |-> 185, dtype |-> "None", name |-> "???", ops |-> <<>>],
    [opcode |-> 186, dtype |-> "Half", name |-> "ANDH2", ops |-> <<"Src", "Dest">>],
    [opcode |-> 187, dtype |-> "Byte", name |-> "ANDB2", ops |-> <<"Src", "Dest">>],
    [opcode |-> 188, dtype |-> "Word", name |-> "SUBW2", ops |-> <<"Src", "Dest">>],
    [opcode |-> 189, dtype |-> "None", name |-> "???", ops |-> <<>>],
    [opcode |-> 190, dtype |-> "Half", name |-> "SUBH2", ops |-> <<"Src", "Dest">>],
    [opcode |-> 191, dtype |-> "Byte", name |-> "SUBB2", ops |-> <<"Src", "Dest">>],
    [opcode |-> 192, dtype |-> "Word", name |-> "ALSW3", ops |-> <<"Src", "Src", "Dest">>],
    [opcode |-> 193, dtype |-> "None", name |-> "???", ops |-> <<>>],
    [opcode |-> 194, dtype |-> "None", name |-> "???", ops |-> <<>>],
    [opcode |-> 195, dtype |-> "None", name |-> "???", ops |-> <<>>],
    [opcode |-> 196, dtype |-> "Word", name |-> "ARSW3", ops |-> <<"Src", "Src", "Dest">>],
    [opcode |-> 197, dtype |-> "None", name |-> "???", ops |-> <<>>],
    [opcode |-> 198, dtype |-> "Half", name |-> "ARSH3", ops |-> <<"Src", "Src", "Dest">>],
    [opcode |-> 199, dtype |-> "Byte", name |-> "ARSB3", ops |-> <<"Src", "Src", "Dest">>],
    [opcode |-> 200, dtype |-> "Word", name |-> "INSFW", ops |-> <<"Src", "Src", "Src", "Dest">>],
    [opcode |-> 201, dtype |-> "None", name |-> "???", ops |-> <<>>],
    [opcode |-> 202, dtype |-> "Half", name |-> "INSFH", ops |-> <<"Src", "Src", "Src", "Dest">>],
    [opcode |-> 203, dtype |-> "Byte", name |-> "INSFB", ops |-> <<"Src", "Src", "Src", "Dest">>],
    [opcode |-> 204, dtype |-> "Word", name |-> "EXTFW", ops |-> <<"Src", "Src", "Src", "Dest">>],
    [opcode |-> 205, dtype |-> "None", name |-> "???", ops |-> <<>>],
    [opcode |-> 206, dtype |-> "Half", name |-> "EXTFH", ops |-> <<"Src", "Src", "Src", "Dest">>],
    [opcode |-> 207, dtype |-> "Byte", name |-> "EXTFB", ops |-> <<"Src", "Src", "Src", "Dest">>],
    [opcode |-> 208, dtype |-> "Word", name |-> "LLSW3", ops |-> <<"Src", "Src", "Dest">>],
    [opcode |-> 209, dtype |-> "None", name |-> "???", ops |-> <<>>],
    [opcode |-> 210, dtype |-> "Half", name |-> "LLSH3", ops |-> <<"Src", "Src", "Dest">>],
    [opcode |-> 211, dtype |-> "Byte", name |-> "LLSB3", ops |-> <<"Src", "Src", "Dest">>],
    [opcode |-> 212, dtype |-> "Word", name |-> "LRSW3", ops |-> <<"Src", "Src", "Dest">>],
    [opcode |-> 213, dtype |-> "None", name |-> "???", ops |-> <<>>],
    [opcode |-> 214, dtype |-> "None", name |-> "???", ops |-> <<>>],
    [opcode |-> 215, dtype |-> "None", name |-> "???", ops |-> <<>>],
    [opcode |-> 216, dtype |-> "Word", name |-> "ROTW", ops |-> <<"Src", "Src", "Dest">>],
    [opcode |-> 217, dtype |-> "None", name |-> "???", ops |-> <<>>],
    [opcode |-> 218, dtype |-> "None", name |-> "???", ops |-> <<>>],
    [opcode |-> 219, dtype |-> "None", name |-> "???", ops |-> <<>>],
    [opcode |-> 220, dtype |-> "Word", name |-> "ADDW3", ops |-> <<"Src", "Src", "Dest">>],
    [opcode |-> 221, dtype |-> "None", name |-> "???", ops |-> <<>>],
    [opcode |-> 222, dtype |-> "Half", name |-> "ADDH3", ops |-> <<"Src", "Src", "Dest">>],
    [opcode |-> 223, dtype |-> "Byte", name |-> "ADDB3", ops |-> <<"Src", "Src", "Dest">>],
    [opcode |-> 224, dtype |-> "Word", name |-> "PUSHAW", ops |-> <<"Src">>],
    [opcode |-> 225, dtype |-> "None", name |-> "???", ops |-> <<>>],
    [opcode |-> 226, dtype |-> "None", name |-> "???", ops |-> <<>>],
    [opcode |-> 227, dtype |-> "None", name |-> "???", ops |-> <<>>],
    [opcode |-> 228, dtype |-> "Word", name |-> "MODW3", ops |-> <<"Src", "Src", "Dest">>],
    [opcode |-> 229, dtype |-> "None", name |-> "???", ops |-> <<>>],
    [opcode |-> 230, dtype |-> "Half", name |-> "MODH3", ops |-> <<"Src", "Src", "Dest">>],
    [opcode |-> 231, dtype |-> "Byte", name |-> "MODB3", ops |-> <<"Src", "Src", "Dest">>],
    [opcode |-> 232, dtype |-> "Word", name |-> "MULW3", ops |-> <<"Src", "Src", "Dest">>],
    [opcode |-> 233, dtype |-> "None", name |-> "???", ops |-> <<>>],
    [opcode |-> 234, dtype |-> "Half", name |-> "MULH3", ops |-> <<"Src", "Src", "Dest">>],
    [opcode |-> 235, dtype |-> "Byte", name |-> "MULB3", ops |-> <<"Src", "Src", "Dest">>],
    [opcode |-> 236, dtype |-> "Word", name |-> "DIVW3", ops |-> <<"Src", "Src", "Dest">>],
    [opcode |-> 237, dtype |-> "None", name |-> "???", ops |-> <<>>],
    [opcode |-> 238, dtype |-> "Half", name |-> "DIVH3", ops |-> <<"Src", "Src", "Dest">>],
    [opcode |-> 239, dtype |-> "Byte", name |-> "DIVB3", ops |-> <<"Src", "Src", "Dest">>],
    [opcode |-> 240, dtype |-> "Word", name |-> "ORW3", ops |-> <<"Src", "Src", "Dest">>],
    [opcode |-> 241, dtype |-> "None", name |-> "???", ops |-> <<>>],
    [opcode |-> 242, dtype |-> "Half", name |-> "ORH3", ops |-> <<"Src", "Src", "Dest">>],
    [opcode |-> 243, dtype |-> "Byte", name |-> "ORB3", ops |-> <<"Src", "Src", "Dest">>],
    [opcode |-> 244, dtype |-> "Word", name |-> "XORW3", ops |-> <<"Src", "Src", "Dest">>],
    [opcode |-> 245, dtype |-> "None", name |-> "???", ops |-> <<>>],
    [opcode |-> 246, dtype |-> "Half", name |-> "XORH3", ops |-> <<"Src", "Src", "Dest">>],
    [opcode |-> 247, dtype |-> "Byte", name |-> "XORB3", ops |-> <<"Src", "Src", "Dest">>],
    [opcode |-> 248, dtype |-> "Word", name |-> "ANDW3", ops |-> <<"Src", "Src", "Dest">>],
    [opcode |-> 249, dtype |-> "None", name |-> "???", ops |-> <<>>],
    [opcode |-> 250, dtype |-> "Half", name |-> "ANDH3", ops |-> <<"Src", "Src", "Dest">>],
    [opcode |-> 251, dtype |-> "Byte", name |-> "ANDB3", ops |-> <<"Src", "Src", "Dest">>],
    [opcode |-> 252, dtype |-> "Word", name |-> "SUBW3", ops |-> <<"Src", "Src", "Dest">>],
    [opcode |-> 253, dtype |-> "None", name |-> "???", ops |-> <<>>],
    [opcode |-> 254, dtype |-> "Half", name |-> "SUBH3", ops |-> <<"Src", "Src", "Dest">>],
    [opcode |-> 255, dtype |-> "Byte", name |-> "SUBB3", ops |-> <<"Src", "Src", "Dest">>]
  >>

-----------------------------------------------------------------------------
(* Results of the fallible calls.  status is "Ok", "IllegalOpcode"          *)
(* (CpuError::Exception(CpuException::IllegalOpcode)), "Bus"                *)
(* (CpuError::Bus) or "Panic" (the thread panicked: arithmetic overflow     *)
(* with overflow checks on).                                                *)

NoOperand == Operand(0, "None", "None", None, None, W(0, 0))

OkOp(op) == [status |-> "Ok", op |-> op]
ErrOp(status) == [status |-> status, op |-> NoOperand]

OkVal(v) == [status |-> "Ok", val |-> v]
ErrVal(status) == [status |-> status, val |-> W(0, 0)]

\* a + b on u32: wraps in a build without overflow checks, panics with them
AddU32(a, b, oc) ==
  LET lo == a.lo + b.lo
      hi == a.hi + b.hi + (lo \div 65536)
  IN
  IF hi < 65536 THEN OkVal(W(hi, lo % 65536))
  ELSE IF oc THEN ErrVal("Panic") ELSE OkVal(W(hi % 65536, lo % 65536))

-----------------------------------------------------------------------------
(* The operand decoder *)

\* Cpu::decode_operand_literal
decode_operand_literal(m, mn, addr) ==
  CASE mn.dtype = "Byte" ->
         LET b == read_byte(m, addr) IN
         IF b.ok THEN OkOp(Operand(1, "None", "Byte", None, None, W(0, b.val)))
         ELSE ErrOp("Bus")
    [] mn.dtype = "Half" ->
         LET h == read_half_unaligned(m, addr) IN
         IF h.ok THEN OkOp(Operand(2, "None", "Half", None, None, W(0, h.val)))
         ELSE ErrOp("Bus")
    [] mn.dtype = "Word" ->
         LET w == read_word_unaligned(m, addr) IN
         IF w.ok THEN OkOp(Operand(4, "None", "Word", None, None, w.val))
         ELSE ErrOp("Bus")
    [] OTHER -> ErrOp("IllegalOpcode")

\* The one-byte embedded value with the register left out
WithByteNoRegister(m, addr, dsize, mode, dtype, etype, reg) ==
  LET b == read_byte(m, UsizeAdd(addr, 1)) IN
  IF b.ok THEN OkOp(Operand(dsize + 1, mode, dtype, etype, None, W(0, b.val)))
  ELSE ErrOp("Bus")

\* An operand whose descriptor byte is followed by a byte, a halfword or a
\* word read from the instruction stream (the embedded value).
WithByte(m, addr, dsize, mode, dtype, etype, reg) ==
  LET b == read_byte(m, UsizeAdd(addr, 1)) IN
  IF b.ok THEN OkOp(Operand(dsize + 1, mode, dtype, etype, reg, W(0, b.val)))
  ELSE ErrOp("Bus")

WithHalf(m, addr, dsize, mode, dtype, etype, reg) ==
  LET h == read_half_unaligned(m, UsizeAdd(addr, 1)) IN
  IF h.ok THEN OkOp(Operand(dsize + 2, mode, dtype, etype, reg, W(0, h.val)))
  ELSE ErrOp("Bus")

WithWord(m, addr, dsize, mode, dtype, etype, reg) ==
  LET w == read_word_unaligned(m, UsizeAdd(addr, 1)) IN
  IF w.ok THEN OkOp(Operand(dsize + 4, mode, dtype, etype, reg, w.val))
  ELSE ErrOp("Bus")

\* The size a NegativeLiteral operand reports: the literal 1, not dsize
NegativeLiteralSize(dsize) == 1

\* An m = 14 descriptor whose low nibble selects no type taken as {word}
ExpandedTypeOrWord(rr) ==
  CASE rr = 0 -> Some("UWord")
    [] rr = 2 -> Some("UHalf")
    [] rr = 3 -> Some("Byte")
    [] rr = 6 -> Some("Half")
    [] rr = 7 -> Some("SByte")
    [] OTHER -> Some("Word")

\* The expanded type the low nibble of an m = 14 descriptor selects
ExpandedType(rr) ==
  CASE rr = 0 -> Some("UWord")
    [] rr = 2 -> Some("UHalf")
    [] rr = 3 -> Some("Byte")
    [] rr = 4 -> Some("Word")
    [] rr = 6 -> Some("Half")
    [] rr = 7 -> Some("SByte")
    [] OTHER -> None

\* Cpu::decode_operand_descriptor
RECURSIVE decode_operand_descriptor(_, _, _, _, _)
decode_operand_descriptor(m, dtype, etype, addr, recur) ==
  LET rb == read_byte(m, addr) IN
  IF ~rb.ok THEN ErrOp("Bus")
  ELSE
    LET descriptor_byte == rb.val
        mm == (descriptor_byte \div 16) % 16
        rr == descriptor_byte % 16
        dsize == IF recur THEN 2 ELSE 1
    IN
    CASE mm \in 0..3 ->
           OkOp(Operand(dsize, "PositiveLiteral", dtype, etype, None,
                        W(0, descriptor_byte)))
      [] mm = 4 ->
           IF rr = 15
           THEN WithWord(m, addr, dsize, "WordImmediate", dtype, etype, None)
           ELSE OkOp(Operand(dsize, "Register", dtype, etype, Some(rr),
                             W(0, 0)))
      [] mm = 5 ->
           IF rr = 15
           THEN WithHalf(m, addr, dsize, "HalfwordImmediate", dtype, etype,
                         None)
           ELSE IF rr = 11 THEN ErrOp("IllegalOpcode")
           ELSE OkOp(Operand(dsize, "RegisterDeferred", dtype, etype,
                             Some(rr), W(0, 0)))
      [] mm = 6 ->
           IF rr = 15
           THEN WithByte(m, addr, dsize, "ByteImmediate", dtype, etype, None)
           ELSE OkOp(Operand(dsize, "FPShortOffset", dtype, etype,
                             Some(R_FP), W(0, rr)))
      [] mm = 7 ->
           IF rr = 15
           THEN WithWord(m, addr, dsize, "Absolute", dtype, etype, None)
           ELSE OkOp(Operand(dsize, "APShortOffset", dtype, etype,
                             Some(R_AP), W(0, rr)))
      [] mm = 8 ->
           IF rr = 11 THEN ErrOp("IllegalOpcode")
           ELSE WithWord(m, addr, dsize, "WordDisplacement", dtype, etype,
                         Some(rr))
      [] mm = 9 ->
           IF rr = 11 THEN ErrOp("IllegalOpcode")
           ELSE WithWord(m, addr, dsize, "WordDisplacementDeferred", dtype,
                         etype, Some(rr))
      [] mm = 10 ->
           IF rr = 11 THEN ErrOp("IllegalOpcode")
           ELSE WithHalf(m, addr, dsize, "HalfwordDisplacement", dtype,
                         etype, Some(rr))
      [] mm = 11 ->
           IF rr = 11 THEN ErrOp("IllegalOpcode")
           ELSE WithHalf(m, addr, dsize, "HalfwordDisplacementDeferred",
                         dtype, etype, Some(rr))
      [] mm = 12 ->
           IF rr = 11 THEN ErrOp("IllegalOpcode")
           ELSE WithByte(m, addr, dsize, "ByteDisplacement", dtype, etype,
                         Some(rr))
      [] mm = 13 ->
           IF rr = 11 THEN ErrOp("IllegalOpcode")
           ELSE WithByte(m, addr, dsize, "ByteDisplacementDeferred", dtype,
                         etype, Some(rr))
      [] mm = 14 ->
           IF IsSome(ExpandedType(rr))
           THEN decode_operand_descriptor(m, dtype, ExpandedType(rr),
                                          UsizeAdd(addr, 1), TRUE)
           ELSE ErrOp("IllegalOpcode")
      [] OTHER ->
           OkOp(Operand(NegativeLiteralSize(dsize), "NegativeLiteral", dtype,
                        etype, None, W(0, descriptor_byte)))

\* Cpu::decode_operand
decode_operand(m, mn, ot, etype, addr) ==
  IF ot = "Lit" THEN decode_operand_literal(m, mn, addr)
  ELSE decode_operand_descriptor(m, mn.dtype, etype, addr, FALSE)

-----------------------------------------------------------------------------
(* The fetch driver *)

\* struct DecodedInstruction, with the status of the decode
Decoded(status, mn, bytes, operands) ==
  [status |-> status, mnemonic |-> mn, bytes |-> bytes,
   operands |-> operands]

\* The mnemonic decode_instruction selects for first byte b1 and next byte b2
SelectMnemonic(b1, b2) ==
  IF b1 = 48 THEN OPCODES[b2 + 1] ELSE OPCODES[b1 + 1]

\* decode_instruction with a fresh None for every operand
NoInheritedEtype(o) == None

\* The expanded type handed to the next operand's decode: etype = o.expanded_type
NextEtype(o) == o.expanded_type

\* operands.iter().map(|o| o.size).sum()
RECURSIVE total_operand_bytes(_)
total_operand_bytes(operands) ==
  IF operands = <<>> THEN 0
  ELSE Head(operands).size + total_operand_bytes(Tail(operands))

\* DecodedInstruction.bytes as decode_instruction sets it
InstructionBytes(operands) == total_operand_bytes(operands) + 1

\* The loop of decode_instruction over mn.ops, from operand i on
RECURSIVE decode_operands(_, _, _, _, _, _)
decode_operands(m, mn, i, etype, addr, operands) ==
  IF i > Len(mn.ops) THEN [status |-> "Ok", operands |-> operands]
  ELSE
    LET o == decode_operand(m, mn, mn.ops[i], etype, addr) IN
    IF o.status # "Ok" THEN [status |-> o.status, operands |-> operands]
    ELSE decode_operands(m, mn, i + 1, NextEtype(o.op),
                         UsizeAdd(addr, o.op.size),
                         Append(operands, o.op))

\* Cpu::decode_instruction
decode_instruction(regs, m) ==
  LET addr == AsUsize(regs[R_PC])
      b1 == read_byte(m, addr)
  IN
  IF ~b1.ok THEN Decoded("Bus", OPCODES[1], 0, <<>>)
  ELSE
    LET b2 == read_byte(m, UsizeAdd(addr, 1)) IN
    IF b1.val = 48 /\ ~b2.ok THEN Decoded("Bus", OPCODES[1], 0, <<>>)
    ELSE
      LET mn == SelectMnemonic(b1.val, b2.val)
          first == IF b1.val = 48 THEN UsizeAdd(addr, 2)
                   ELSE UsizeAdd(addr, 1)
          ops == decode_operands(m, mn, 1, None, first, <<>>)
      IN
      IF ops.status # "Ok" THEN Decoded(ops.status, mn, 0, <<>>)
      ELSE Decoded("Ok", mn, InstructionBytes(ops.operands), ops.operands)

-----------------------------------------------------------------------------
(* Effective address, read and write *)

\* R[op.register] + disp, or IllegalOpcode when the operand has no register
BasePlus(regs, op, disp, oc) ==
  IF IsSome(op.register) THEN AddU32(regs[Unwrap(op.register)], disp, oc)
  ELSE ErrVal("IllegalOpcode")

\* A deferred mode that uses the computed address itself
Undeferred(m, a) == a

\* bus.read_word(addr, AddressFetch)? of a computed address
Deferred(m, a) ==
  IF a.status # "Ok" THEN a
  ELSE LET w == read_word(m, AsUsize(a.val)) IN
       IF w.ok THEN OkVal(w.val) ELSE ErrVal("Bus")

\* A default arm that answers address 0
AddressZero == OkVal(W(0, 0))

\* effective_address, every mode that is not matched:
\* _ => Err(CpuError::Exception(CpuException::IllegalOpcode))
NoAddress == ErrVal("IllegalOpcode")

\* Cpu::effective_address
effective_address(regs, m, op, oc) ==
  CASE op.mode = "RegisterDeferred" ->
         IF IsSome(op.register) THEN OkVal(regs[Unwrap(op.register)])
         ELSE ErrVal("IllegalOpcode")
    [] op.mode = "Absolute" -> OkVal(op.embedded)
    [] op.mode = "AbsoluteDeferred" -> Deferred(m, OkVal(op.embedded))
    [] op.mode = "FPShortOffset" ->
         AddU32(regs[R_FP], sign_extend_byte(AsU8(op.embedded)), oc)
    [] op.mode = "APShortOffset" ->
         AddU32(regs[R_AP], sign_extend_byte(AsU8(op.embedded)), oc)
    [] op.mode = "WordDisplacement" ->
         BasePlus(regs, op, op.embedded, oc)
    [] op.mode = "WordDisplacementDeferred" ->
         Deferred(m, BasePlus(regs, op, op.embedded, oc))
    [] op.mode = "HalfwordDisplacement" ->
         BasePlus(regs, op, sign_extend_halfword(AsU16(op.embedded)), oc)
    [] op.mode = "HalfwordDisplacementDeferred" ->
         Deferred(m, BasePlus(regs, op,
                              sign_extend_halfword(AsU16(op.embedded)), oc))
    [] op.mode = "ByteDisplacement" ->
         BasePlus(regs, op, sign_extend_byte(AsU8(op.embedded)), oc)
    [] op.mode = "ByteDisplacementDeferred" ->
         Deferred(m, BasePlus(regs, op,
                              sign_extend_byte(AsU8(op.embedded)), oc))
    [] OTHER -> NoAddress

\* A Register read that returns R[r] whatever the data type
ReadRegisterRaw(regs, op) ==
  IF IsSome(op.register) THEN OkVal(regs[Unwrap(op.register)])
  ELSE ErrVal("IllegalOpcode")

\* read_op, Register mode: R[r] through the operand's data type
ReadRegister(regs, op) ==
  IF ~IsSome(op.register) THEN ErrVal("IllegalOpcode")
  ELSE
    LET v == regs[Unwrap(op.register)]
        t == OperandDataType(op)
    IN
    CASE t \in {"Word", "UWord"} -> OkVal(v)
      [] t = "Half" -> OkVal(sign_extend_halfword(AsU16(v)))
      [] t = "UHalf" -> OkVal(W(0, AsU16(v)))
      [] t = "Byte" -> OkVal(W(0, AsU8(v)))
      [] t = "SByte" -> OkVal(sign_extend_byte(AsU8(v)))
      [] OTHER -> ErrVal("IllegalOpcode")

\* read_op, memory modes: the bus read at the effective address
ReadMemory(regs, m, op, oc) ==
  LET eff == effective_address(regs, m, op, oc)
      a == AsUsize(eff.val)
      t == OperandDataType(op)
  IN
  IF eff.status # "Ok" THEN eff
  ELSE
    CASE t \in {"UWord", "Word"} ->
           LET w == read_word(m, a) IN
           IF w.ok THEN OkVal(w.val) ELSE ErrVal("Bus")
      [] t = "Half" ->
           LET h == read_half(m, a) IN
           IF h.ok THEN OkVal(sign_extend_halfword(h.val)) ELSE ErrVal("Bus")
      [] t = "UHalf" ->
           LET h == read_half(m, a) IN
           IF h.ok THEN OkVal(W(0, h.val)) ELSE ErrVal("Bus")
      [] t = "Byte" ->
           LET b == read_byte(m, a) IN
           IF b.ok THEN OkVal(W(0, b.val)) ELSE ErrVal("Bus")
      [] t = "SByte" ->
           LET b == read_byte(m, a) IN
           IF b.ok THEN OkVal(sign_extend_byte(b.val)) ELSE ErrVal("Bus")
      [] OTHER -> ErrVal("IllegalOpcode")

\* Cpu::read_op
read_op(regs, m, op, oc) ==
  CASE op.mode = "Register" -> ReadRegister(regs, op)
    [] op.mode \in {"PositiveLiteral", "NegativeLiteral"} ->
         OkVal(sign_extend_byte(AsU8(op.embedded)))
    [] op.mode = "WordImmediate" -> OkVal(op.embedded)
    [] op.mode = "HalfwordImmediate" ->
         OkVal(sign_extend_halfword(AsU16(op.embedded)))
    [] op.mode = "ByteImmediate" ->
         OkVal(sign_extend_byte(AsU8(op.embedded)))
    [] OTHER -> ReadMemory(regs, m, op, oc)

\* The outcome of a call that may change registers and RAM
Outcome(status, regs, m) == [status |-> status, r |-> regs, mem |-> m]

\* write_op, Register mode: self.r[r] = val
WriteRegister(regs, m, op, val) ==
  IF IsSome(op.register)
  THEN Outcome("Ok", [regs EXCEPT ![Unwrap(op.register)] = val], m)
  ELSE Outcome("IllegalOpcode", regs, m)

\* A memory write of all 32 bits whatever the data type
WriteMemoryWord(regs, m, op, val, oc) ==
  LET eff == effective_address(regs, m, op, oc)
      w == write_word(m, AsUsize(eff.val), val)
  IN
  IF eff.status # "Ok" THEN Outcome(eff.status, regs, m)
  ELSE Outcome(IF w.ok THEN "Ok" ELSE "Bus", regs, w.val)

\* write_op, memory modes: the bus write at the effective address
WriteMemory(regs, m, op, val, oc) ==
  LET eff == effective_address(regs, m, op, oc)
      a == AsUsize(eff.val)
      t == OperandDataType(op)
  IN
  IF eff.status # "Ok" THEN Outcome(eff.status, regs, m)
  ELSE
    CASE t \in {"UWord", "Word"} ->
           LET w == write_word(m, a, val) IN
           Outcome(IF w.ok THEN "Ok" ELSE "Bus", regs, w.val)
      [] t \in {"Half", "UHalf"} ->
           LET w == write_half(m, a, AsU16(val)) IN
           Outcome(IF w.ok THEN "Ok" ELSE "Bus", regs, w.val)
      [] t \in {"Byte", "SByte"} ->
           LET w == write_byte(m, a, AsU8(val)) IN
           Outcome(IF w.ok THEN "Ok" ELSE "Bus", regs, w.val)
      [] OTHER -> Outcome("IllegalOpcode", regs, m)

\* Cpu::write_op
write_op(regs, m, op, val, oc) ==
  CASE op.mode = "Register" -> WriteRegister(regs, m, op, val)
    [] op.mode \in {"NegativeLiteral", "PositiveLiteral", "ByteImmediate",
                    "HalfwordImmediate", "WordImmediate"} ->
         Outcome("IllegalOpcode", regs, m)
    [] OTHER -> WriteMemory(regs, m, op, val, oc)

\* A dispatch that leaves MOVB out
MovOpcodesWithoutMovb == {132, 134}

\* The opcodes step executes: MOVW, MOVH, MOVB
MovOpcodes == {132, 134, 135}

\* The result of step: the decoded instruction, the value read, the outcome
StepResult(instr, rd, out) == [instr |-> instr, rd |-> rd, out |-> out]

\* A MOV that writes its destination before it looks at the result of the
\* read, and then returns the read's error
StepWriteBeforeCheck(instr, rd, regs, m, oc) ==
  StepResult(instr, rd,
             [write_op(regs, m, instr.operands[2], rd.val, oc)
                EXCEPT !.status = IF rd.status # "Ok" THEN rd.status ELSE @])

\* step, MOV: self.write_op(bus, &instr.operands[1], val) with the value read
StepWrite(instr, rd, regs, m, oc) ==
  IF rd.status # "Ok"
  THEN StepResult(instr, rd, Outcome(rd.status, regs, m))
  ELSE StepResult(instr, rd, write_op(regs, m, instr.operands[2], rd.val, oc))

\* step, after the decode: the dispatch on instr.mnemonic.opcode
StepDispatch(instr, regs, m, oc) ==
  IF instr.status # "Ok"
  THEN StepResult(instr, ErrVal("NotRead"), Outcome(instr.status, regs, m))
  ELSE IF instr.mnemonic.opcode \in MovOpcodes
  THEN CHOOSE s \in {StepWrite(instr, rd, regs, m, oc) :
                       rd \in {read_op(regs, m, instr.operands[1], oc)}} : TRUE
  ELSE StepResult(instr, ErrVal("NotRead"), Outcome("IllegalOpcode", regs, m))

\* A step that adds the decoded instruction's bytes to the PC
stepAdvancingPc(regs, m, oc) ==
  CHOOSE s \in {[x EXCEPT !.out.r[R_PC] =
                            W(@.hi, (@.lo + x.instr.bytes + 1) % 65536)] :
                  x \in {StepDispatch(instr, regs, m, oc) :
                           instr \in {decode_instruction(regs, m)}}} : TRUE

\* Cpu::step
step(regs, m, oc) ==
  CHOOSE s \in {StepDispatch(instr, regs, m, oc) :
                  instr \in {decode_instruction(regs, m)}} : TRUE

-----------------------------------------------------------------------------
(* Inputs: the programs, register files and RAM contents of the runs *)

\* Operand encodings placed first in a MOV (the source)
SrcEncodings ==
  {
    <<64>>,                              \* 40: %r0
    <<65>>,                              \* 41: %r1
    <<75>>,                              \* 4B: %psw
    <<81>>,                              \* 51: (%r1)
    <<82>>,                              \* 52: (%r2)
    <<240>>,                             \* F0: &-16
    <<255>>,                             \* FF: &-1
    <<63>>,                              \* 3F: &63
    <<79, 120, 86, 52, 18>>,             \* 4F 78 56 34 12: &0x12345678
    <<79, 128, 255, 255, 255>>,          \* 4F 80 FF FF FF: &0xFFFFFF80
    <<95, 0, 128>>,                      \* 5F 00 80: &0x8000 halfword
    <<95, 52, 18>>,                      \* 5F 34 12: &0x1234 halfword
    <<111, 255>>,                        \* 6F FF: &-1 byte
    <<111, 40>>,                         \* 6F 28: &40 byte
    <<127, 0, 3, 0, 0>>,                 \* 7F 00 03 00 00: $0x300
    <<127, 1, 3, 0, 0>>,                 \* 7F 01 03 00 00: $0x301
    <<127, 0, 0, 1, 0>>,                 \* 7F 00 00 01 00: $0x10000, past the RAM
    <<100>>,                             \* 64: 4(%fp)
    <<110>>,                             \* 6E: 14(%fp)
    <<116>>,                             \* 74: 4(%ap)
    <<112>>,                             \* 70: 0(%ap)
    <<130, 4, 0, 0, 0>>,                 \* 82 04 00 00 00: 4(%r2) word
    <<129, 255, 255, 255, 255>>,         \* 81 FF FF FF FF: -1(%r1) word
    <<145, 48, 0, 0, 0>>,                \* 91 30 00 00 00: *0x30(%r1) word
    <<146, 48, 0, 0, 0>>,                \* 92 30 00 00 00: *0x30(%r2) word
    <<145, 252, 255, 255, 255>>,         \* 91 FC FF FF FF: *-4(%r1) word
    <<161, 4, 0>>,                       \* A1 04 00: 4(%r1) halfword
    <<161, 255, 255>>,                   \* A1 FF FF: -1(%r1) halfword
    <<162, 48, 0>>,                      \* A2 30 00: 0x30(%r2) halfword
    <<177, 48, 0>>,                      \* B1 30 00: *0x30(%r1) halfword
    <<177, 252, 255>>,                   \* B1 FC FF: *-4(%r1) halfword
    <<193, 4>>,                          \* C1 04: 4(%r1)
    <<193, 255>>,                        \* C1 FF: -1(%r1)
    <<193, 5>>,                          \* C1 05: 5(%r1)
    <<194, 48>>,                         \* C2 30: 0x30(%r2)
    <<210, 48>>,                         \* D2 30: *0x30(%r2)
    <<209, 252>>,                        \* D1 FC: *-4(%r1)
    <<224, 64>>,                         \* E0 40: {uword}%r0
    <<226, 64>>,                         \* E2 40: {uhalf}%r0
    <<227, 64>>,                         \* E3 40: {byte}%r0
    <<228, 64>>,                         \* E4 40: {word}%r0
    <<230, 64>>,                         \* E6 40: {half}%r0
    <<231, 64>>,                         \* E7 40: {sbyte}%r0
    <<224, 81>>,                         \* E0 51: {uword}(%r1)
    <<226, 81>>,                         \* E2 51: {uhalf}(%r1)
    <<227, 81>>,                         \* E3 51: {byte}(%r1)
    <<228, 81>>,                         \* E4 51: {word}(%r1)
    <<230, 81>>,                         \* E6 51: {half}(%r1)
    <<231, 81>>,                         \* E7 51: {sbyte}(%r1)
    <<226, 193, 4>>,                     \* E2 C1 04: {uhalf}4(%r1)
    <<228, 193, 4>>,                     \* E4 C1 04: {word}4(%r1)
    <<231, 193, 4>>,                     \* E7 C1 04: {sbyte}4(%r1)
    <<231, 255>>,                        \* E7 FF: {sbyte}&-1
    <<228, 63>>,                         \* E4 3F: {word}&63
    <<231, 79, 120, 86, 52, 18>>,        \* E7 4F 78 56 34 12: {sbyte}&0x12345678
    <<231, 228, 64>>,                    \* E7 E4 40: {sbyte}{word}%r0, nested
    <<225, 64>>,                         \* E1 40: selector 1, illegal
    <<231, 91>>                          \* E7 5B: {sbyte} then illegal 5/11
  }

\* Operand encodings placed second in a MOV (the destination)
DstEncodings ==
  {
    <<65>>,                              \* 41: %r1
    <<67>>,                              \* 43: %r3
    <<75>>,                              \* 4B: %psw
    <<4>>,                               \* 04: &4, not writable
    <<255>>,                             \* FF: &-1, not writable
    <<79, 120, 86, 52, 18>>,             \* 4F 78 56 34 12: &0x12345678, not writable
    <<95, 52, 18>>,                      \* 5F 34 12: halfword immediate
    <<111, 40>>,                         \* 6F 28: byte immediate
    <<81>>,                              \* 51: (%r1)
    <<127, 4, 3, 0, 0>>,                 \* 7F 04 03 00 00: $0x304
    <<127, 0, 0, 1, 0>>,                 \* 7F 00 00 01 00: $0x10000, past the RAM
    <<100>>,                             \* 64: 4(%fp)
    <<116>>,                             \* 74: 4(%ap)
    <<193, 4>>,                          \* C1 04: 4(%r1)
    <<193, 5>>,                          \* C1 05: 5(%r1)
    <<193, 255>>,                        \* C1 FF: -1(%r1)
    <<161, 4, 0>>,                       \* A1 04 00: 4(%r1) halfword
    <<130, 4, 0, 0, 0>>,                 \* 82 04 00 00 00: 4(%r2) word
    <<210, 48>>,                         \* D2 30: *0x30(%r2)
    <<224, 193, 4>>,                     \* E0 C1 04: {uword}4(%r1)
    <<226, 193, 4>>,                     \* E2 C1 04: {uhalf}4(%r1)
    <<227, 193, 4>>,                     \* E3 C1 04: {byte}4(%r1)
    <<228, 193, 4>>,                     \* E4 C1 04: {word}4(%r1)
    <<230, 193, 4>>,                     \* E6 C1 04: {half}4(%r1)
    <<231, 193, 4>>,                     \* E7 C1 04: {sbyte}4(%r1)
    <<226, 65>>                          \* E2 41: {uhalf}%r1
  }

\* The sources the destination encodings are paired with
DstSources ==
  {
    <<64>>,                              \* 40: %r0
    <<231, 64>>,                         \* E7 40: {sbyte}%r0
    <<79, 120, 86, 52, 18>>              \* 4F 78 56 34 12: &0x12345678
  }

\* Whole programs: the test programs, 0x30-prefixed and non-MOV opcodes
SpecialPrograms ==
  {
    <<135, 231, 64, 226, 193, 4>>,       \* 87 E7 40 E2 C1 04: MOVB {sbyte}%r0,{uhalf}4(%r1)
    <<132, 79, 120, 86, 52, 18, 67>>,    \* 84 4F 78 56 34 12 43: MOVW &0x12345678,%r3
    <<132, 95, 0, 128, 66>>,             \* 84 5F 00 80 42: MOVW &0x8000,%r2
    <<135, 255, 68>>,                    \* 87 FF 44: MOVB &-1,%r4
    <<135, 210, 48, 67>>,                \* 87 D2 30 43: MOVB *0x30(%r2),%r3
    <<48, 132, 64, 65>>,                 \* 30 84 40 41: 0x30 then MOVW %r0,%r1
    <<48, 135, 4, 68>>,                  \* 30 87 04 44: 0x30 then MOVB &4,%r4
    <<48, 9>>,                           \* 30 09: 0x30 0x09: MVERNO
    <<48, 200, 64, 65, 66, 67>>,         \* 30 C8 40 41 42 43: 0x30 0xC8: RETPS, INSFW in the primary table
    <<48, 172, 64, 65>>,                 \* 30 AC 40 41: 0x30 0xAC: CALLPS, DIVW2 in the primary table
    <<48, 48, 132, 64, 65>>,             \* 30 30 84 40 41: 0x30 0x30
    <<48, 1>>,                           \* 30 01: 0x30 then an unassigned opcode
    <<48, 79, 6>>,                       \* 30 4F 06: 0x30 then BLEB 6
    <<20>>,                              \* 14: EXTOP
    <<1>>,                               \* 01: ???
    <<0>>,                               \* 00: halt
    <<112>>,                             \* 70: NOP
    <<79, 6>>,                           \* 4F 06: BLEB 6
    <<78, 255, 15>>,                     \* 4E FF 0F: BLEH 0xfff
    <<50, 255, 79, 0, 0>>,               \* 32 FF 4F 00 00: SPOP 0x4fff
    <<24, 64>>,                          \* 18 40: RESTORE %r0, width None
    <<60, 64, 226, 65>>,                 \* 3C 40 E2 41: CMPW %r0,{uhalf}%r1
    <<4, 127, 0, 3, 0, 0, 64>>,          \* 04 7F 00 03 00 00 40: MOVAW $0x300,%r0
    <<3, 1, 0, 0, 0, 231, 64, 65>>,      \* 03 01 00 00 00 E7 40 41: SPOPRD2 1,{sbyte}%r0,%r1
    <<19, 1, 0, 0, 0, 65>>,              \* 13 01 00 00 00 41: SPOPWD 1,%r1
    <<220, 226, 64, 65, 66>>,            \* DC E2 40 41 42: ADDW3 {uhalf}%r0,%r1,%r2
    <<220, 64, 230, 255, 66>>,           \* DC 40 E6 FF 42: ADDW3 %r0,{half}&-1,%r2
    <<200, 231, 64, 65, 228, 66, 67>>,   \* C8 E7 40 41 E4 42 43: INSFW {sbyte}%r0,%r1,{word}%r2,%r3
    <<204, 64, 65, 66, 67>>              \* CC 40 41 42 43: EXTFW %r0,%r1,%r2,%r3
  }

\* Programs loaded so that they end at the end of the RAM
EdgePrograms ==
  {
    <<135, 64, 65>>,                     \* 87 40 41: MOVB %r0,%r1
    <<135, 255>>,                        \* 87 FF: MOVB &-1, second operand past the RAM
    <<132, 79, 120, 86>>,                \* 84 4F 78 56: MOVW with a truncated word immediate
    <<48>>,                              \* 30: 0x30 as the last byte
    <<135, 231>>,                        \* 87 E7: expanded prefix as the last byte
    <<78, 1>>,                           \* 4E 01: BLEH with a truncated literal
    <<112>>                              \* 70: NOP
  }

\* The opcode bytes of the MOV programs: MOVW, MOVH, MOVB
ProgramOpcodes == {132, 134, 135}

\* MOVW / MOVH / MOVB <source>,%r3
MovSrcPrograms ==
  {<<opc>> \o e \o <<67>> : opc \in ProgramOpcodes, e \in SrcEncodings}

\* MOVW / MOVH / MOVB <source>,<destination>
MovDstPrograms ==
  {<<opc>> \o s \o d : opc \in ProgramOpcodes, s \in DstSources,
                       d \in DstEncodings}

\* MOVB with every descriptor byte as its first operand's first byte, and
\* MOVB %r0 with every descriptor byte as its second operand's first byte
DescriptorPrograms ==
  {<<135, d, 4, 3, 0, 0, 67>> : d \in 0..255}
    \cup {<<135, 64, d, 4, 3, 0, 0>> : d \in 0..255}

Programs ==
  MovSrcPrograms \cup MovDstPrograms \cup DescriptorPrograms
    \cup SpecialPrograms

\* Register files; the PC (r[15]) is set to where the program is loaded.
RegsA ==
  [i \in 0..15 |->
     CASE i = 0 -> W(0, 31)           \* 0x0000001F
       [] i = 1 -> W(0, 768)          \* 0x00000300
       [] i = 2 -> W(0, 768)          \* 0x00000300
       [] i = R_FP -> W(0, 768)       \* 0x00000300
       [] i = R_AP -> W(0, 768)       \* 0x00000300
       [] OTHER -> W(0, 0)]

RegsB ==
  [i \in 0..15 |->
     CASE i = 0 -> W(65535, 33023)    \* 0xFFFF80FF
       [] i = 1 -> W(0, 769)          \* 0x00000301
       [] i = 2 -> W(65535, 65520)    \* 0xFFFFFFF0
       [] i = 3 -> W(4386, 13124)     \* 0x11223344
       [] i = R_FP -> W(65535, 65534) \* 0xFFFFFFFE
       [] i = R_AP -> W(0, 65535)     \* 0x0000FFFF
       [] i = R_PSW -> W(32, 8)       \* 0x00200008
       [] OTHER -> W(0, 0)]

RegFiles == {RegsA, RegsB}

\* RAM contents besides the program (address :> byte)
DataImage ==
  (32 :> 64) @@ (33 :> 3)                                \* 0x20: 0x00000340
  @@ (764 :> 4) @@ (765 :> 3)                            \* 0x2FC: 0x00000304
  @@ (768 :> 128) @@ (769 :> 255) @@ (770 :> 52) @@ (771 :> 18)
                                                         \* 0x300: 0x1234FF80
  @@ (772 :> 127) @@ (773 :> 129) @@ (774 :> 205) @@ (775 :> 171)
                                                         \* 0x304: 0xABCD817F
  @@ (782 :> 85) @@ (783 :> 102)                         \* 0x30E: 0x6655
  @@ (816 :> 64) @@ (817 :> 3)                           \* 0x330: 0x00000340
  @@ (832 :> 170) @@ (833 :> 187) @@ (834 :> 204) @@ (835 :> 221)
                                                         \* 0x340: 0xDDCCBBAA
  @@ (65535 :> 119)                                      \* 0xFFFF: 0x77

\* The runs start with a program loaded at base and the PC at base.
Scenarios ==
  {[prog |-> p, regs |-> rf, base |-> 0] : p \in Programs, rf \in RegFiles}
  \cup
  {[prog |-> p, regs |-> RegsA, base |-> MemSize - Len(p)] :
     p \in EdgePrograms}

\* Values set_pc is called with
PcValues == {W(0, 0), W(0, 6), W(0, 65535), W(1, 0)}

\* Mnemonic data widths read_op, write_op and effective_address are called with
CallWidths == {"None", "Byte", "Half", "Word"}

\* The value write_op is called with
WriteValue == W(35243, 52719)   \* 0x89ABCDEF

-----------------------------------------------------------------------------
(* Bit operations *)

\* a & b on 16 bits
RECURSIVE BitAnd(_, _)
BitAnd(a, b) ==
  IF a = 0 \/ b = 0 THEN 0
  ELSE (a % 2) * (b % 2) + 2 * BitAnd(a \div 2, b \div 2)

\* a | b on 16 bits
BitOr(a, b) == a + b - BitAnd(a, b)

\* a & b, a | b and !a on u32
AndW(a, b) == W(BitAnd(a.hi, b.hi), BitAnd(a.lo, b.lo))
OrW(a, b) == W(BitOr(a.hi, b.hi), BitOr(a.lo, b.lo))
NotW(a) == W(65535 - a.hi, 65535 - a.lo)

-----------------------------------------------------------------------------
(* The DUART.  Instants are nanoseconds since the device was made, durations *)
(* are nanoseconds; a call reads the clock once.                              *)

START_ADDR == 2097152            \* 0x200000
END_ADDR == 33554496             \* 0x2000040

\* ADDRESS_RANGE.contains(address), ADDRESS_RANGE = START_ADDR..END_ADDR: the
\* range the device reports through address_range(), by which the bus
\* selects the device of an access
ADDRESS_RANGE(address) == START_ADDR <= address /\ address < END_ADDR
VERTICAL_BLANK_DELAY == 16666666

\* Delay rates selected when ACR[7] = 0; entry i is DELAY_RATES_A[i + 1]
DELAY_RATES_A ==
  <<200000000, 90909096, 74074072, 50000000,
    33333336, 16666668, 8333334, 9523810,
    4166667, 2083333, 1388888, 1041666, 260416>>

\* Delay rates selected when ACR[7] = 1
DELAY_RATES_B ==
  <<133333344, 90909096, 74074072, 66666672,
    33333336, 16666668, 8333334, 5000000,
    4166667, 205338, 5555555, 1041666, 520833>>

PORT_0 == 0
PORT_1 == 1

\* Registers
MR12A == 3
CSRA == 7
CRA == 11
THRA == 15
IPCR_ACR == 19
ISR_MASK == 23
MR12B == 35
CSRB == 39
CRB == 43
THRB == 47
IP_OPCR == 55

\* Port configuration bits
CNF_ETX == 1
CNF_ERX == 2

\* Status flags
STS_RXR == 1
STS_TXR == 4
STS_TXE == 8
STS_OER == 16
STS_PER == 32
STS_FER == 64

\* Commands
CMD_ERX == 1
CMD_DRX == 2
CMD_ETX == 4
CMD_DTX == 8

\* Interrupt status register
ISTS_TAI == 1
ISTS_RAI == 2
ISTS_RBI == 32
ISTS_IPC == 128

\* Interrupt masks
KEYBOARD_INT == 4
MOUSE_BLANK_INT == 2
TX_INT == 16
RX_INT == 32

\* a & !m on a byte
Clear(a, m) == a - BitAnd(a, m)

\* A port as Duart::new makes it at instant t; mode[i] is mode[i + 1]
NewPort(t) ==
  [mode |-> <<0, 0>>, stat |-> 0, conf |-> 0, rx_data |-> 0, tx_data |-> 0,
   mode_ptr |-> 0, rx_pending |-> FALSE, tx_pending |-> FALSE,
   char_delay |-> 1000000, next_rx |-> t, next_tx |-> t]

\* Duart::new at instant t; the callback is the sequence of bytes it was
\* given, kept outside the record
DuartNew(t) ==
  [ports |-> [p \in {PORT_0, PORT_1} |-> NewPort(t)],
   acr |-> 0, ipcr |-> 64, inprt |-> 11, istat |-> 0, imr |-> 0, ivec |-> 0,
   last_vblank |-> t]

\* What a call leaves: the device, the bytes given to the transmit callback
\* during the call, the value returned, and Ok, an error or Panic
Done(d, out, ret, status) ==
  [d |-> d, out |-> out, ret |-> ret, status |-> status]

\* vertical_blank
vertical_blank(d) ==
  LET d1 == [d EXCEPT !.ivec = BitOr(@, MOUSE_BLANK_INT),
                      !.ipcr = BitOr(@, 64),
                      !.istat = BitOr(@, ISTS_IPC)]
  IN IF BitAnd(d1.inprt, 4) = 0
     THEN [d1 EXCEPT !.ipcr = BitOr(@, 64)]
     ELSE [d1 EXCEPT !.inprt = Clear(@, 4)]

\* The vertical blank due from the very instant on
VblankDueAtInstant(d, t) == t >= d.last_vblank + VERTICAL_BLANK_DELAY

\* Instant::now() > self.last_vblank + VERTICAL_BLANK_DELAY
VblankDue(d, t) == t > d.last_vblank + VERTICAL_BLANK_DELAY

\* get_interrupt at instant t
get_interrupt(d, t) ==
  LET d1 == IF VblankDue(d, t)
            THEN vertical_blank([d EXCEPT !.last_vblank = t])
            ELSE d
  IN Done(d1, <<>>, IF d1.ivec = 0 THEN None ELSE Some(d1.ivec), "Ok")

\* The transmission is due only after its instant
TxDueLate(ctx, t) == ctx.tx_pending /\ t > ctx.next_tx

\* A deadline that counts whether or not a byte is pending
TxDueWithoutPending(ctx, t) == t >= ctx.next_tx

\* A transmission that never comes due
TxNeverDue(ctx, t) == FALSE

\* ctx.tx_pending && Instant::now() >= ctx.next_tx
TxDue(ctx, t) == ctx.tx_pending /\ t >= ctx.next_tx

\* service at instant t
service(d, t) ==
  LET ctx == d.ports[PORT_0] IN
  IF TxDue(ctx, t)
  THEN
    LET c == ctx.tx_data
        ctx1 == [ctx EXCEPT !.conf = BitOr(@, CNF_ETX),
                            !.stat = BitOr(BitOr(@, STS_TXR), STS_TXE),
                            !.tx_pending = FALSE]
        d1 == [d EXCEPT !.istat = BitOr(@, ISTS_TAI),
                        !.ivec = BitOr(@, TX_INT)]
    IN
    IF (ctx1.mode[2] \div 64) % 4 = 2
    THEN Done([d1 EXCEPT !.ports[PORT_0] =
                           [ctx1 EXCEPT !.rx_data = c,
                                        !.stat = BitOr(@, STS_RXR)],
                         !.istat = BitOr(@, ISTS_RAI),
                         !.ivec = BitOr(@, RX_INT)],
              <<>>, None, "Ok")
    ELSE Done([d1 EXCEPT !.ports[PORT_0] = ctx1], <<c>>, None, "Ok")
  ELSE Done(d, <<>>, None, "Ok")

\* handle_keyboard
handle_keyboard(d, val) ==
  Done([d EXCEPT !.ports[PORT_1].rx_data = val,
                 !.ports[PORT_1].stat = BitOr(@, STS_RXR),
                 !.istat = BitOr(@, ISTS_RBI),
                 !.ivec = BitOr(@, KEYBOARD_INT)],
       <<>>, None, "Ok")

\* A mouse event that leaves the input port as the last event left it
MouseEventKeepingInputPort(d, button) ==
  [d EXCEPT !.ipcr = CASE button = 0 -> 128
                       [] button = 1 -> 32
                       [] button = 2 -> 16
                       [] OTHER -> 0,
            !.istat = BitOr(@, ISTS_IPC),
            !.ivec = BitOr(@, MOUSE_BLANK_INT)]

\* What mouse_down and mouse_up share: self.ipcr = 0 and so on, then the
\* button's IPCR bit
MouseEvent(d, button) ==
  [d EXCEPT !.ipcr = CASE button = 0 -> 128
                       [] button = 1 -> 32
                       [] button = 2 -> 16
                       [] OTHER -> 0,
            !.inprt = BitOr(@, 11),
            !.istat = BitOr(@, ISTS_IPC),
            !.ivec = BitOr(@, MOUSE_BLANK_INT)]

\* mouse_down
mouse_down(d, button) ==
  Done([MouseEvent(d, button) EXCEPT
          !.inprt = CASE button = 0 -> Clear(@, 8)
                      [] button = 1 -> Clear(@, 2)
                      [] button = 2 -> Clear(@, 1)
                      [] OTHER -> @],
       <<>>, None, "Ok")

\* mouse_up
mouse_up(d, button) == Done(MouseEvent(d, button), <<>>, None, "Ok")

\* The receiver taken to be enabled whatever the configuration
AlwaysEnabled(ctx) == TRUE

\* ctx.conf & CNF_ERX != 0
ReceiverEnabled(ctx) == BitAnd(ctx.conf, CNF_ERX) # 0

\* rx_char at instant t
rx_char(d, t, c) ==
  LET ctx == d.ports[PORT_0] IN
  IF ctx.rx_pending
  THEN
    IF t > ctx.next_rx
    THEN
      IF ReceiverEnabled(ctx)
      THEN Done([d EXCEPT !.ports[PORT_0] =
                            [ctx EXCEPT !.rx_pending = FALSE,
                                        !.rx_data = c,
                                        !.stat = BitOr(@, STS_RXR)],
                          !.istat = BitOr(@, ISTS_RAI),
                          !.ivec = BitOr(@, RX_INT)],
                <<>>, None, "Ok")
      ELSE Done([d EXCEPT !.ports[PORT_0].stat = BitOr(@, STS_OER)],
                <<>>, None, "Ok")
    ELSE Done(d, <<>>, None, "ReceiverNotReady")
  ELSE Done([d EXCEPT !.ports[PORT_0].next_rx = t + ctx.char_delay,
                      !.ports[PORT_0].rx_pending = TRUE],
            <<>>, None, "ReceiverNotReady")

\* handle_command: enable or disable transmitter
TransmitterCommand(d, cmd, port) ==
  IF BitAnd(cmd, CMD_DTX) # 0
  THEN LET d1 == [d EXCEPT !.ports[port].conf = Clear(@, CNF_ETX),
                           !.ports[port].stat = Clear(Clear(@, STS_TXR),
                                                      STS_TXE)]
       IN IF port = PORT_0
          THEN [d1 EXCEPT !.ivec = Clear(@, TX_INT),
                          !.istat = Clear(@, ISTS_TAI)]
          ELSE d1
  ELSE IF BitAnd(cmd, CMD_ETX) # 0
  THEN LET d1 == [d EXCEPT !.ports[port].conf = BitOr(@, CNF_ETX),
                           !.ports[port].stat = BitOr(BitOr(@, STS_TXR),
                                                      STS_TXE)]
       IN IF port = PORT_0
          THEN [d1 EXCEPT !.istat = BitOr(@, ISTS_TAI),
                          !.ivec = BitOr(@, TX_INT)]
          ELSE d1
  ELSE d

\* The receiver's enabling: conf |= CNF_ERX, stat |= STS_RXR
EnableReceiver(d, port) ==
  [d EXCEPT !.ports[port].conf = BitOr(@, CNF_ERX),
            !.ports[port].stat = BitOr(@, STS_RXR)]

\* The receiver's disabling, with the interrupt bits of the port
DisableReceiver(d, port) ==
  [d EXCEPT !.ports[port].conf = Clear(@, CNF_ERX),
            !.ports[port].stat = Clear(@, STS_RXR),
            !.ivec = Clear(@, IF port = PORT_0 THEN RX_INT
                                               ELSE KEYBOARD_INT),
            !.istat = Clear(@, IF port = PORT_0 THEN ISTS_RAI
                                                ELSE ISTS_RBI)]

\* A receiver command in which the enable bit is looked at first
ReceiverCommandEnableFirst(d, cmd, port) ==
  IF BitAnd(cmd, CMD_ERX) # 0 THEN EnableReceiver(d, port)
  ELSE IF BitAnd(cmd, CMD_DRX) # 0 THEN DisableReceiver(d, port)
  ELSE d

\* handle_command: enable or disable receiver
ReceiverCommand(d, cmd, port) ==
  IF BitAnd(cmd, CMD_DRX) # 0 THEN DisableReceiver(d, port)
  ELSE IF BitAnd(cmd, CMD_ERX) # 0 THEN EnableReceiver(d, port)
  ELSE d

\* handle_command: extra commands, match (cmd >> 4) & 7
ExtraCommand(d, cmd, port) ==
  CASE (cmd \div 16) % 8 = 1 -> [d EXCEPT !.ports[port].mode_ptr = 0]
    [] (cmd \div 16) % 8 = 2 -> EnableReceiver(d, port)
    [] (cmd \div 16) % 8 = 3 ->
         [d EXCEPT !.ports[port].stat = BitOr(BitOr(@, STS_TXR), STS_TXE),
                   !.ports[port].conf = Clear(@, CNF_ETX)]
    [] (cmd \div 16) % 8 = 4 ->
         [d EXCEPT !.ports[port].stat =
                     Clear(@, STS_FER + STS_PER + STS_OER)]
    [] OTHER -> d

\* handle_command
handle_command(d, cmd, port) ==
  IF cmd = 0 THEN d
  ELSE ExtraCommand(ReceiverCommand(TransmitterCommand(d, cmd, port),
                                    cmd, port),
                    cmd, port)

\* A mode register access that leaves the pointer where it is
KeepModePtr(d, port) == d

\* A mode register access: the pointer advances modulo 2
AdvanceModePtr(d, port) ==
  [d EXCEPT !.ports[port].mode_ptr = (@ + 1) % 2]

\* A read of the IPCR that leaves the interrupt vector as it was
InputChangeReadKeepingVector(d) ==
  [d EXCEPT !.ipcr = Clear(@, 15), !.istat = Clear(@, ISTS_IPC)]

\* read_byte, IPCR_ACR: self.ipcr &= !0x0f; self.ivec = 0;
\* self.istat &= !ISTS_IPC
InputChangeRead(d) ==
  [d EXCEPT !.ipcr = Clear(@, 15), !.ivec = 0, !.istat = Clear(@, ISTS_IPC)]

\* Device::read_byte: match (address - START_ADDR) as u8
Duart_read_byte(d, address) ==
  LET offset == (address - START_ADDR) % 256 IN
  CASE offset = MR12A ->
         Done(AdvanceModePtr(d, PORT_0), <<>>,
              d.ports[PORT_0].mode[d.ports[PORT_0].mode_ptr + 1], "Ok")
    [] offset = CSRA -> Done(d, <<>>, d.ports[PORT_0].stat, "Ok")
    [] offset = THRA ->
         Done([d EXCEPT !.ports[PORT_0].stat = Clear(@, STS_RXR),
                        !.istat = Clear(@, ISTS_RAI),
                        !.ivec = Clear(@, RX_INT)],
              <<>>, d.ports[PORT_0].rx_data, "Ok")
    [] offset = IPCR_ACR ->
         Done(InputChangeRead(d), <<>>, d.ipcr, "Ok")
    [] offset = ISR_MASK -> Done(d, <<>>, d.istat, "Ok")
    [] offset = MR12B ->
         Done(AdvanceModePtr(d, PORT_1), <<>>,
              d.ports[PORT_1].mode[d.ports[PORT_1].mode_ptr + 1], "Ok")
    [] offset = CSRB -> Done(d, <<>>, d.ports[PORT_1].stat, "Ok")
    [] offset = THRB ->
         Done([d EXCEPT !.ports[PORT_1].stat = Clear(@, STS_RXR),
                        !.istat = Clear(@, ISTS_RBI),
                        !.ivec = Clear(@, KEYBOARD_INT)],
              <<>>, d.ports[PORT_1].rx_data, "Ok")
    [] offset = IP_OPCR -> Done(d, <<>>, d.inprt, "Ok")
    [] OTHER -> Done(d, <<>>, 0, "Ok")

\* write_byte, MR12A and MR12B: ctx.mode[ctx.mode_ptr] = val, then advance
WriteMode(d, port, val) ==
  AdvanceModePtr([d EXCEPT !.ports[port].mode[d.ports[port].mode_ptr + 1]
                             = val],
                 port)

\* write_byte, CSRA: the delay tables have 13 entries, and indexing one
\* with 13, 14 or 15 panics
WriteCsra(d, val) ==
  LET baud_bits == (val \div 16) % 16 IN
  IF baud_bits >= Len(DELAY_RATES_A)
  THEN Done(d, <<>>, None, "Panic")
  ELSE Done([d EXCEPT !.ports[PORT_0].char_delay =
                        IF BitAnd(d.acr, 128) = 0
                        THEN DELAY_RATES_A[baud_bits + 1]
                        ELSE DELAY_RATES_B[baud_bits + 1]],
            <<>>, None, "Ok")

\* Device::write_byte at instant t: match (address - START_ADDR) as u8
Duart_write_byte(d, t, address, val) ==
  LET offset == (address - START_ADDR) % 256 IN
  CASE offset = MR12A -> Done(WriteMode(d, PORT_0, val), <<>>, None, "Ok")
    [] offset = CSRA -> WriteCsra(d, val)
    [] offset = CRA -> Done(handle_command(d, val, PORT_0), <<>>, None, "Ok")
    [] offset = THRA ->
         Done([d EXCEPT !.ports[PORT_0].tx_data = val,
                        !.ports[PORT_0].next_tx =
                          t + d.ports[PORT_0].char_delay,
                        !.ports[PORT_0].tx_pending = TRUE,
                        !.ports[PORT_0].stat = Clear(@, STS_TXE + STS_TXR),
                        !.ivec = Clear(@, TX_INT),
                        !.istat = Clear(@, ISTS_TAI)],
              <<>>, None, "Ok")
    [] offset = IPCR_ACR -> Done([d EXCEPT !.acr = val], <<>>, None, "Ok")
    [] offset = ISR_MASK -> Done([d EXCEPT !.imr = val], <<>>, None, "Ok")
    [] offset = MR12B -> Done(WriteMode(d, PORT_1, val), <<>>, None, "Ok")
    [] offset = CRB -> Done(handle_command(d, val, PORT_1), <<>>, None, "Ok")
    [] offset = THRB ->
         Done([d EXCEPT !.ports[PORT_1].tx_data = val,
                        !.ports[PORT_1].stat =
                          IF val = 2 THEN STS_RXR + STS_PER ELSE @],
              <<>>, None, "Ok")
    [] OTHER -> Done(d, <<>>, None, "Ok")

-----------------------------------------------------------------------------
(* The state machine *)

Init ==
  \E sc \in Scenarios :
    /\ r = [sc.regs EXCEPT ![R_PC] = W(0, sc.base)]
    /\ mem = load(DataImage, sc.base, sc.prog)
    /\ overflow_checks \in BOOLEAN
    /\ calls = 0
    /\ last = [kind |-> "new", status |-> "Ok"]
    /\ duart = DuartNew(0)
    /\ now = 0
    /\ sent = <<>>

\* A call can be made: the bound is not reached and the thread has not panicked
CanCall == calls < MaxCalls /\ last.status # "Panic"

\* cpu.step(bus)
Step ==
  /\ CanCall
  /\ \E s \in {step(r, mem, overflow_checks)} :
     /\ r' = s.out.r
     /\ mem' = s.out.mem
     /\ last' = [kind |-> "step", status |-> s.out.status, r0 |-> r,
                 mem0 |-> mem, instr |-> s.instr, rd |-> s.rd]
  /\ calls' = calls + 1
  /\ UNCHANGED duart_vars
  /\ UNCHANGED overflow_checks

\* cpu.set_pc(val)
SetPc ==
  /\ CanCall
  /\ \E val \in PcValues :
       /\ r' = [r EXCEPT ![R_PC] = val]
       /\ last' = [kind |-> "set_pc", status |-> "Ok", r0 |-> r,
                   mem0 |-> mem, val |-> val]
  /\ calls' = calls + 1
  /\ UNCHANGED duart_vars
  /\ UNCHANGED <<mem, overflow_checks>>

\* The operand at PC + 1, decoded as the tests decode one:
\* cpu.decode_operand_descriptor(bus, dtype, None, addr, false)
OperandAtPc(dtype) ==
  decode_operand_descriptor(mem, dtype, None, UsizeAdd(AsUsize(r[R_PC]), 1),
                            FALSE)

\* cpu.read_op(bus, &op) on the operand decoded at PC + 1
ReadOp ==
  /\ CanCall
  /\ \E dtype \in CallWidths :
       LET d == OperandAtPc(dtype) IN
       /\ d.status = "Ok"
       /\ LET rd == read_op(r, mem, d.op, overflow_checks) IN
          last' = [kind |-> "read_op", dtype |-> dtype, decoded |-> TRUE,
                   status |-> rd.status, r0 |-> r, mem0 |-> mem,
                   op |-> d.op, rd |-> rd]
  /\ calls' = calls + 1
  /\ UNCHANGED duart_vars
  /\ UNCHANGED <<r, mem, overflow_checks>>

\* cpu.write_op(bus, &op, val) on the operand decoded at PC + 1
WriteOp ==
  /\ CanCall
  /\ \E dtype \in CallWidths :
       LET d == OperandAtPc(dtype) IN
       /\ d.status = "Ok"
       /\ LET w == write_op(r, mem, d.op, WriteValue, overflow_checks) IN
          /\ r' = w.r
          /\ mem' = w.mem
          /\ last' = [kind |-> "write_op", dtype |-> dtype, decoded |-> TRUE,
                      status |-> w.status, r0 |-> r, mem0 |-> mem,
                      op |-> d.op, val |-> WriteValue]
  /\ calls' = calls + 1
  /\ UNCHANGED duart_vars
  /\ UNCHANGED overflow_checks

\* Operands built with Operand::new rather than decoded: the modes and the
\* missing registers the descriptor decoder never produces
BuiltOperands ==
  {Operand(4, "None", "Word", None, None, W(0, 768)),
   Operand(1, "Expanded", "Word", None, None, W(0, 0)),
   Operand(5, "AbsoluteDeferred", "Word", None, None, W(0, 816)),
   Operand(2, "ByteDisplacement", "Word", None, None, W(0, 4)),
   Operand(1, "RegisterDeferred", "Word", None, None, W(0, 0))}

\* The operands effective_address is called with: the operand decoded at
\* PC + 1, and the built ones
EaOperands ==
  {[op |-> d.op, decoded |-> TRUE] :
     d \in {x \in {OperandAtPc("Word")} : x.status = "Ok"}}
  \cup {[op |-> o, decoded |-> FALSE] : o \in BuiltOperands}

\* cpu.effective_address(bus, &op)
EffectiveAddress ==
  /\ CanCall
  /\ \E c \in EaOperands :
       \E ea \in {effective_address(r, mem, c.op, overflow_checks)} :
         last' = [kind |-> "effective_address", dtype |-> "Word",
                  decoded |-> c.decoded, status |-> ea.status, r0 |-> r,
                  mem0 |-> mem, op |-> c.op, ea |-> ea]
  /\ calls' = calls + 1
  /\ UNCHANGED duart_vars
  /\ UNCHANGED <<r, mem, overflow_checks>>

Next == Step \/ SetPc \/ ReadOp \/ WriteOp \/ EffectiveAddress

Spec == Init /\ [][Next]_vars

-----------------------------------------------------------------------------
(* The processor status word: reset and the flag setters *)

\* The PSW fields the setters touch
F_ISC == W(0, 120)     \* 0x00000078
F_I == W(0, 128)       \* 0x00000080
F_PM == W(0, 1536)     \* 0x00000600
F_CM == W(0, 6144)     \* 0x00001800
F_C == W(4, 0)         \* 0x00040000
F_V == W(8, 0)         \* 0x00080000
F_Z == W(16, 0)        \* 0x00100000
F_N == W(32, 0)        \* 0x00200000

\* A setter that can only raise its flag
RaiseFlag(regs, flag, set) == [regs EXCEPT ![R_PSW] = OrW(@, flag)]

\* A flag setter: self.r[R_PSW] |= flag when set, &= !flag when not
SetFlag(regs, flag, set) ==
  [regs EXCEPT ![R_PSW] = IF set THEN OrW(@, flag) ELSE AndW(@, NotW(flag))]

set_c_flag(regs, set) == SetFlag(regs, F_C, set)
set_v_flag(regs, set) == SetFlag(regs, F_V, set)
set_z_flag(regs, set) == SetFlag(regs, F_Z, set)
set_n_flag(regs, set) == SetFlag(regs, F_N, set)

\* val << 3 on u32, without the mask
IscBitsUnmasked(val) ==
  W((val.hi * 8 + (val.lo \div 8192)) % 65536, (val.lo * 8) % 65536)

\* (val & 0xf) << 3
IscBits(val) == W(0, (val.lo % 16) * 8)

\* set_isc: clear the field, then or in the low four bits of val
set_isc(regs, val) ==
  [regs EXCEPT ![R_PSW] = OrW(AndW(@, NotW(F_ISC)), IscBits(val))]

\* set_priv_level: the current level (CM, bits 11-12) becomes the previous
\* level (PM, bits 9-10), and the low two bits of val become the current level
set_priv_level(regs, val) ==
  LET old_level == W(0, AndW(regs[R_PSW], F_CM).lo \div 2048)
      pm_clear == AndW(regs[R_PSW], NotW(F_PM))
      pm_set == OrW(pm_clear, W(0, (old_level.lo % 4) * 512))
      cm_clear == AndW(pm_set, NotW(F_CM))
  IN [regs EXCEPT ![R_PSW] = OrW(cm_clear, W(0, (val.lo % 4) * 2048))]

\* The PSW left as it was read
PswAsRead(psw) == psw

\* self.r[R_PSW] &= !F_I
ClearInterrupt(psw) == AndW(psw, NotW(F_I))

\* The end of reset, once the four words have been read: the interrupted
\* frame is stepped over, and the ISC is set to 3
ResetFinish(regs, m, oc) ==
  IF AndW(regs[R_PSW], F_I) # W(0, 0)
  THEN LET sum == AddU32(regs[R_PCBP], W(0, 12), oc) IN
       IF sum.status # "Ok"
       THEN Outcome("Panic",
                    [regs EXCEPT ![R_PSW] = ClearInterrupt(@)], m)
       ELSE Outcome("Ok",
                    set_isc([regs EXCEPT ![R_PSW] = ClearInterrupt(@),
                                         ![R_PCBP] = sum.val],
                            W(0, 3)), m)
  ELSE Outcome("Ok", set_isc(regs, W(0, 3)), m)

\* reset: each register is assigned as soon as its word has been read, so a
\* bus error leaves the registers assigned before it
reset(regs, m, oc) ==
  LET pcbp == read_word(m, W(0, 128)) IN
  IF ~pcbp.ok THEN Outcome("Bus", regs, m)
  ELSE
  LET r1 == [regs EXCEPT ![R_PCBP] = pcbp.val]
      psw == read_word(m, AsUsize(r1[R_PCBP]))
  IN
  IF ~psw.ok THEN Outcome("Bus", r1, m)
  ELSE
  LET r2 == [r1 EXCEPT ![R_PSW] = psw.val]
      pc == read_word(m, UsizeAdd(AsUsize(r2[R_PCBP]), 4))
  IN
  IF ~pc.ok THEN Outcome("Bus", r2, m)
  ELSE
  LET r3 == [r2 EXCEPT ![R_PC] = pc.val]
      sp == read_word(m, UsizeAdd(AsUsize(r3[R_PCBP]), 8))
  IN
  IF ~sp.ok THEN Outcome("Bus", r3, m)
  ELSE ResetFinish([r3 EXCEPT ![R_SP] = sp.val], m, oc)

\* The registers of a new Cpu: r: [0; 16]
NewRegisters == [i \in 0..15 |-> W(0, 0)]

\* The PSW values the runs start with
PswValues ==
  {W(0, 0), W(65535, 65535), W(60, 120), W(4660, 65408), W(43981, 33151)}

\* The register files the runs start with: every register but the PSW holds
\* a value of its own
PswRegFiles ==
  {NewRegisters} \cup
  {[i \in 0..15 |-> IF i = R_PSW THEN p ELSE W(i + 1, 4096 + i)] :
     p \in PswValues \ {W(0, 0)}}

\* Where the word at 0x80 points: a control block with the I bit set, one with
\* it clear, one whose stack pointer lies past the RAM, a misaligned one, one
\* past the RAM
ResetPointers == {W(0, 768), W(0, 772), W(0, 65528), W(0, 769), W(1, 0)}

\* RAM images: the data image with the reset vector at 0x80, and the data
\* image alone, whose vector is zero
ResetImages ==
  {DataImage} \cup
  {(128 :> (p.lo % 256)) @@ (129 :> (p.lo \div 256))
     @@ (130 :> (p.hi % 256)) @@ (131 :> (p.hi \div 256)) @@ DataImage :
       p \in ResetPointers}

\* Values set_isc is called with
IscValues == {W(0, v) : v \in 0..16} \cup {W(0, 29), W(65535, 65535)}

\* Values set_priv_level is called with
PrivLevels == {W(0, 0), W(0, 1), W(0, 3), W(65535, 65535)}

\* The additions reset makes cannot overflow, so one build stands for both
InitPsw ==
  /\ r \in PswRegFiles
  /\ mem \in ResetImages
  /\ overflow_checks = TRUE
  /\ calls = 0
  /\ last = [kind |-> "new", status |-> "Ok"]
  /\ duart = DuartNew(0)
  /\ now = 0
  /\ sent = <<>>

\* A call can be made in the flag runs
CanCallPsw == calls < MaxPswCalls /\ last.status # "Panic"

\* cpu.reset(bus)
Reset ==
  /\ CanCallPsw
  /\ \E o \in {reset(r, mem, overflow_checks)} :
       /\ r' = o.r
       /\ last' = [kind |-> "reset", status |-> o.status, r0 |-> r,
                   mem0 |-> mem]
  /\ calls' = calls + 1
  /\ UNCHANGED duart_vars
  /\ UNCHANGED <<mem, overflow_checks>>

\* cpu.set_c_flag(set)
SetCFlag ==
  /\ CanCallPsw
  /\ \E set \in BOOLEAN :
       /\ r' = set_c_flag(r, set)
       /\ last' = [kind |-> "set_c_flag", status |-> "Ok", r0 |-> r,
                   mem0 |-> mem, set |-> set]
  /\ calls' = calls + 1
  /\ UNCHANGED duart_vars
  /\ UNCHANGED <<mem, overflow_checks>>

\* cpu.set_v_flag(set)
SetVFlag ==
  /\ CanCallPsw
  /\ \E set \in BOOLEAN :
       /\ r' = set_v_flag(r, set)
       /\ last' = [kind |-> "set_v_flag", status |-> "Ok", r0 |-> r,
                   mem0 |-> mem, set |-> set]
  /\ calls' = calls + 1
  /\ UNCHANGED duart_vars
  /\ UNCHANGED <<mem, overflow_checks>>

\* cpu.set_z_flag(set)
SetZFlag ==
  /\ CanCallPsw
  /\ \E set \in BOOLEAN :
       /\ r' = set_z_flag(r, set)
       /\ last' = [kind |-> "set_z_flag", status |-> "Ok", r0 |-> r,
                   mem0 |-> mem, set |-> set]
  /\ calls' = calls + 1
  /\ UNCHANGED duart_vars
  /\ UNCHANGED <<mem, overflow_checks>>

\* cpu.set_n_flag(set)
SetNFlag ==
  /\ CanCallPsw
  /\ \E set \in BOOLEAN :
       /\ r' = set_n_flag(r, set)
       /\ last' = [kind |-> "set_n_flag", status |-> "Ok", r0 |-> r,
                   mem0 |-> mem, set |-> set]
  /\ calls' = calls + 1
  /\ UNCHANGED duart_vars
  /\ UNCHANGED <<mem, overflow_checks>>

\* cpu.set_isc(val)
SetIsc ==
  /\ CanCallPsw
  /\ \E val \in IscValues :
       /\ r' = set_isc(r, val)
       /\ last' = [kind |-> "set_isc", status |-> "Ok", r0 |-> r,
                   mem0 |-> mem, val |-> val]
  /\ calls' = calls + 1
  /\ UNCHANGED duart_vars
  /\ UNCHANGED <<mem, overflow_checks>>

\* cpu.set_priv_level(val)
SetPrivLevel ==
  /\ CanCallPsw
  /\ \E val \in PrivLevels :
       /\ r' = set_priv_level(r, val)
       /\ last' = [kind |-> "set_priv_level", status |-> "Ok", r0 |-> r,
                   mem0 |-> mem, val |-> val]
  /\ calls' = calls + 1
  /\ UNCHANGED duart_vars
  /\ UNCHANGED <<mem, overflow_checks>>

NextPsw ==
  Reset \/ SetCFlag \/ SetVFlag \/ SetZFlag \/ SetNFlag \/ SetIsc
    \/ SetPrivLevel

SpecPsw == InitPsw /\ [][NextPsw]_vars

-----------------------------------------------------------------------------
(* The DUART's state machine *)

\* One call of a script, <<operation, offset, argument>>: the device, the
\* clock and the bytes sent after it
ApplyCall(st, call) ==
  LET res ==
        CASE call[1] = "write_byte" ->
               Duart_write_byte(st.d, st.t, START_ADDR + call[2], call[3])
          [] call[1] = "rx_char" -> rx_char(st.d, st.t, call[3])
          [] call[1] = "handle_keyboard" -> handle_keyboard(st.d, call[3])
          [] call[1] = "mouse_down" -> mouse_down(st.d, call[3])
          [] OTHER -> Done(st.d, <<>>, None, "Ok")
  IN [d |-> res.d,
      t |-> IF call[1] = "sleep" THEN st.t + call[3] ELSE st.t,
      sent |-> st.sent \o res.out]

\* The state a script of calls leaves a new device in
RECURSIVE RunScript(_, _)
RunScript(st, script) ==
  IF script = <<>> THEN st
  ELSE RunScript(ApplyCall(st, Head(script)), Tail(script))

\* What the host did before a run starts: nothing; a byte written to THRA;
\* that and a second byte half a character time after it; a byte written in
\* loopback mode; a byte written at the fastest rate; table B chosen;
\* a character offered with the receiver enabled, and with it disabled; an
\* overrun; both ports enabled with a key, a button and a transmission
\* pending
PreparedScripts ==
  {<<>>,
   <<<<"write_byte", THRA, 66>>>>,
   <<<<"write_byte", THRA, 66>>, <<"sleep", 0, 500000>>,
     <<"write_byte", THRA, 2>>>>,
   <<<<"write_byte", MR12A, 19>>, <<"write_byte", MR12A, 128>>,
     <<"write_byte", THRA, 66>>>>,
   <<<<"write_byte", CSRA, 192>>, <<"write_byte", THRA, 66>>>>,
   <<<<"write_byte", IPCR_ACR, 128>>>>,
   <<<<"write_byte", CRA, 1>>, <<"rx_char", 0, 65>>>>,
   <<<<"rx_char", 0, 65>>>>,
   <<<<"rx_char", 0, 65>>, <<"sleep", 0, 1000001>>, <<"rx_char", 0, 65>>>>,
   <<<<"write_byte", CRA, 5>>, <<"write_byte", CRB, 5>>,
     <<"write_byte", THRB, 2>>, <<"write_byte", CRB, 5>>,
     <<"handle_keyboard", 0, 97>>, <<"mouse_down", 0, 1>>,
     <<"write_byte", ISR_MASK, 170>>, <<"write_byte", MR12B, 19>>,
     <<"sleep", 0, 1000001>>, <<"rx_char", 0, 65>>,
     <<"write_byte", THRA, 66>>>>}

InitDuart ==
  /\ \E script \in PreparedScripts :
       \E st \in {RunScript([d |-> DuartNew(0), t |-> 0, sent |-> <<>>],
                            script)} :
         /\ duart = st.d
         /\ now = st.t
         /\ sent = st.sent
  /\ r = NewRegisters
  /\ mem = DataImage
  /\ overflow_checks = TRUE
  /\ calls = 0
  /\ last = [kind |-> "new", status |-> "Ok"]

\* A call can be made on the device
CanCallDuart == calls < MaxDuartCalls /\ last.status # "Panic"

\* What a call on the device leaves behind
Called(kind, address, val, res) ==
  /\ duart' = res.d
  /\ sent' = sent \o res.out
  /\ last' = [kind |-> kind, status |-> res.status, ret |-> res.ret,
              address |-> address, val |-> val, d0 |-> duart,
              sent0 |-> sent]
  /\ calls' = calls + 1
  /\ UNCHANGED <<now, cpu_vars>>

\* duart.get_interrupt()
GetInterrupt ==
  /\ CanCallDuart
  /\ Called("get_interrupt", 0, 0, get_interrupt(duart, now))

\* duart.service()
Service ==
  /\ CanCallDuart
  /\ Called("service", 0, 0, service(duart, now))

\* Bytes the host hands to the device: keys and characters
HostBytes == {65, 255}

\* duart.handle_keyboard(val)
HandleKeyboard ==
  /\ CanCallDuart
  /\ \E val \in HostBytes :
       Called("handle_keyboard", 0, val, handle_keyboard(duart, val))

\* duart.vertical_blank()
VerticalBlank ==
  /\ CanCallDuart
  /\ Called("vertical_blank", 0, 0,
            Done(vertical_blank(duart), <<>>, None, "Ok"))

\* duart.mouse_down(button)
MouseDown ==
  /\ CanCallDuart
  /\ \E button \in 0..3 :
       Called("mouse_down", 0, button, mouse_down(duart, button))

\* duart.mouse_up(button)
MouseUp ==
  /\ CanCallDuart
  /\ \E button \in 0..3 :
       Called("mouse_up", 0, button, mouse_up(duart, button))

\* duart.rx_char(c)
RxChar ==
  /\ CanCallDuart
  /\ \E c \in HostBytes :
       Called("rx_char", 0, c, rx_char(duart, now, c))

\* The offsets read and written: the eleven registers, and two offsets that
\* are no register
\* The offsets of the accesses from START_ADDR: the eleven registers, the
\* first and the last byte of the 64 that hold no register, the byte after
\* them, and one byte further up whose low eight bits are those of MR12A
Offsets ==
  {MR12A, CSRA, CRA, THRA, IPCR_ACR, ISR_MASK, MR12B, CSRB, CRB, THRB,
   IP_OPCR, 0, 63, 64, 259}

\* duart.read_byte(address, access)
ReadByte ==
  /\ CanCallDuart
  /\ \E offset \in Offsets :
       /\ ADDRESS_RANGE(START_ADDR + offset)
       /\ Called("read_byte", START_ADDR + offset, 0,
                 Duart_read_byte(duart, START_ADDR + offset))

\* The bytes written to each offset
WrittenBytes(offset) ==
  CASE offset \in {MR12A, MR12B} -> {19, 128}
    [] offset = CSRA -> {0, 176, 192, 208, 255}
    [] offset \in {CRA, CRB} -> {0, 1, 2, 4, 8, 16, 34, 56, 74, 255}
    [] offset \in {THRA, THRB} -> {2, 66}
    [] offset = IPCR_ACR -> {0, 128}
    [] OTHER -> {170}

\* duart.write_byte(address, val, access)
WriteByte ==
  /\ CanCallDuart
  /\ \E offset \in Offsets :
       \E val \in WrittenBytes(offset) :
         /\ ADDRESS_RANGE(START_ADDR + offset)
         /\ Called("write_byte", START_ADDR + offset, val,
                   Duart_write_byte(duart, now, START_ADDR + offset, val))

\* The instants the clock is looked at in the runs: each deadline of port 0
\* and of the vertical blank, and the nanosecond after it
Instants ==
  {t + k : t \in {duart.ports[PORT_0].next_tx, duart.ports[PORT_0].next_rx,
                  duart.last_vblank + VERTICAL_BLANK_DELAY},
           k \in {0, 1}}

\* Time passes between two calls
Tick ==
  /\ CanCallDuart
  /\ \E t \in Instants :
       /\ t > now
       /\ now' = t
  /\ last' = [kind |-> "tick", status |-> "Ok", ret |-> None, address |-> 0,
              val |-> 0, d0 |-> duart, sent0 |-> sent]
  /\ calls' = calls + 1
  /\ UNCHANGED <<duart, sent, cpu_vars>>

NextDuart ==
  \/ GetInterrupt \/ Service \/ HandleKeyboard \/ VerticalBlank
  \/ MouseDown \/ MouseUp \/ RxChar \/ ReadByte \/ WriteByte \/ Tick

SpecDuart == InitDuart /\ [][NextDuart]_vars

-----------------------------------------------------------------------------
(* Commands: every command byte, on either port *)

\* A call can be made in the runs of commands
CanCallCommand == calls < MaxCommandCalls /\ last.status # "Panic"

\* duart.write_byte(CRA or CRB, cmd): handle_command(cmd, port)
Command ==
  /\ CanCallCommand
  /\ \E offset \in {CRA, CRB} :
       \E cmd \in 0..255 :
         Called("write_byte", START_ADDR + offset, cmd,
                Duart_write_byte(duart, now, START_ADDR + offset, cmd))

SpecCommand == InitDuart /\ [][Command]_vars

-----------------------------------------------------------------------------
(* Transmission under the driver loop: the program writes THRA, at most      *)
(* MaxTransmits times, the loop calls service in every round, and the clock  *)
(* advances.  calls counts the writes.                                       *)

\* duart.write_byte(THRA, val): the program transmits a byte
Transmit ==
  /\ calls < MaxTransmits
  /\ \E val \in WrittenBytes(THRA) :
       Called("write_byte", START_ADDR + THRA, val,
              Duart_write_byte(duart, now, START_ADDR + THRA, val))

\* duart.service(), called by the driver loop in every round
ServiceRound ==
  /\ \E res \in {service(duart, now)} :
       /\ duart' = res.d
       /\ sent' = sent \o res.out
       /\ last' = [kind |-> "service", status |-> res.status,
                   ret |-> res.ret, address |-> 0, val |-> 0, d0 |-> duart,
                   sent0 |-> sent]
  /\ UNCHANGED <<calls, now, cpu_vars>>

\* The clock advances while a byte is pending: to the middle of the
\* character time, to the deadline, and to the nanosecond after it
ClockAdvance ==
  /\ duart.ports[PORT_0].tx_pending
  /\ \E t \in {duart.ports[PORT_0].next_tx
                 - duart.ports[PORT_0].char_delay \div 2,
               duart.ports[PORT_0].next_tx,
               duart.ports[PORT_0].next_tx + 1} :
       /\ t > now
       /\ now' = t
  /\ last' = [kind |-> "tick", status |-> "Ok", ret |-> None, address |-> 0,
              val |-> 0, d0 |-> duart, sent0 |-> sent]
  /\ UNCHANGED <<duart, sent, calls, cpu_vars>>

NextTransmit == Transmit \/ ServiceRound \/ ClockAdvance

\* The driver loop calls service in every round without end, and the wall
\* clock does not stop; nothing makes the program write
SpecTransmit ==
  /\ InitDuart
  /\ [][NextTransmit]_vars
  /\ WF_vars(ServiceRound)
  /\ WF_vars(ClockAdvance)

-----------------------------------------------------------------------------
(* Properties.  The definitions below describe what the specification says; *)
(* they are written from its text and are compared with what the calls did. *)

\* The formulas read RAM by place.  The place of the address a u32 x holds;
\* no device holds an address from 2^30 on, and every such address is given
\* the one place 2^30, where Peek reads 0 and every access is refused.
RamAddress(x) == IF x.hi < 16384 THEN x.hi * 65536 + x.lo ELSE 1073741824

\* The address of place n
Usize(n) == W(n \div 65536, n % 65536)

\* The call just made was a step whose instruction decoded successfully
StepDecoded == last.kind = "step" /\ last.instr.status = "Ok"

\* The instruction byte at the PC the last step started from
FirstByte == Peek(last.mem0, RamAddress(last.r0[R_PC]))

\* The byte after it
SecondByte == Peek(last.mem0, RamAddress(last.r0[R_PC]) + 1)

\* Number of opcode bytes of the instruction the last step decoded
OpcodeBytes == IF FirstByte = 48 THEN 2 ELSE 1

\* Sum of the sizes of the first n operands
RECURSIVE SumSizes(_, _)
SumSizes(ops, n) ==
  IF n = 0 THEN 0 ELSE SumSizes(ops, n - 1) + ops[n].size

\* The address the decoder read the i-th operand of the last step from
OperandStart(i) ==
  RamAddress(last.r0[R_PC]) + OpcodeBytes + SumSizes(last.instr.operands, i - 1)

\* C1: for every successfully decoded instruction, bytes is 1 plus the sum of
\* the operand sizes when the byte at PC is not 0x30, and 2 plus that sum when
\* it is 0x30.
C1_BytesCountOpcodeBytes ==
  StepDecoded =>
    last.instr.bytes
      = OpcodeBytes + SumSizes(last.instr.operands, Len(last.instr.operands))

\* The bytes the half-word opcode table has entries for
HalfwordBytes == {9, 13, 19, 25, 31, 47, 63, 69, 97, 172, 200}

\* C2: when the byte at PC is 0x30 the mnemonic is looked up with the following
\* byte in the half-word table; a following byte outside its eleven entries
\* makes the decode, and so the step, fail with IllegalOpcode, and no operand
\* is decoded from the primary table entry of that byte.
C2_HalfwordTableLookup ==
  (/\ last.kind = "step"
   /\ RamAddress(last.r0[R_PC]) + 1 < MemSize
   /\ FirstByte = 48
   /\ SecondByte \notin HalfwordBytes)
  => /\ last.instr.status = "IllegalOpcode"
     /\ last.status = "IllegalOpcode"
     /\ last.instr.operands = <<>>

\* Number of instruction-stream bytes of the descriptor at address a, for a
\* Source or Destination operand: the descriptor byte, one byte for an
\* expanded-type prefix, and the embedded immediate, displacement or address.
DescriptorBytes(m, a) ==
  LET b  == Peek(m, a)
      mm == b \div 16
      rr == b % 16
  IN CASE mm \in {0, 1, 2, 3, 15} -> 1
       [] mm = 4 -> IF rr = 15 THEN 5 ELSE 1
       [] mm = 5 -> IF rr = 15 THEN 3 ELSE 1
       [] mm = 6 -> IF rr = 15 THEN 2 ELSE 1
       [] mm = 7 -> IF rr = 15 THEN 5 ELSE 1
       [] mm \in {8, 9} -> 5
       [] mm \in {10, 11} -> 3
       [] mm \in {12, 13} -> 2
       [] OTHER -> 1

\* The byte at address a is an expanded-type prefix
IsPrefix(m, a) == Peek(m, a) \div 16 = 14

\* Stream bytes of the operand at a: with one prefix byte, or with none
StreamBytes(m, a) ==
  IF IsPrefix(m, a) THEN 1 + DescriptorBytes(m, a + 1)
  ELSE DescriptorBytes(m, a)

\* The operand at a has at most one expanded-type prefix byte
AtMostOnePrefix(m, a) == ~ (IsPrefix(m, a) /\ IsPrefix(m, a + 1))

\* The i-th operand of the last step is a Source or Destination operand
IsDescriptorOperand(i) == last.instr.mnemonic.ops[i] # "Lit"

\* The last call was a direct call on the operand decoded at PC + 1
DirectCall ==
  last.kind \in {"read_op", "write_op", "effective_address"} /\ last.decoded

\* C3: the size of an operand is the number of instruction-stream bytes it
\* occupies, so an operand decoded after an expanded-type prefix reports one
\* more than the same descriptor without the prefix, in every addressing mode,
\* NegativeLiteral included.
C3_SizeIsStreamBytes ==
  /\ StepDecoded =>
       \A i \in 1..Len(last.instr.operands) :
         (IsDescriptorOperand(i) /\ AtMostOnePrefix(last.mem0, OperandStart(i)))
         => last.instr.operands[i].size
              = StreamBytes(last.mem0, OperandStart(i))
  /\ (DirectCall /\ AtMostOnePrefix(last.mem0, RamAddress(last.r0[R_PC]) + 1))
     => last.op.size = StreamBytes(last.mem0, RamAddress(last.r0[R_PC]) + 1)

\* The data type each expanded-type prefix selects, by its low nibble
SelectedType ==
  (0 :> "UWord") @@ (2 :> "UHalf") @@ (3 :> "Byte") @@ (4 :> "Word")
  @@ (6 :> "Half") @@ (7 :> "SByte")

\* Low nibble of the last prefix byte of the run of prefix bytes starting at a
RECURSIVE InnermostPrefix(_, _)
InnermostPrefix(m, a) ==
  IF IsPrefix(m, a + 1) THEN InnermostPrefix(m, a + 1) ELSE Peek(m, a) % 16

\* The expanded type an operand at address a gets from a prefix of its own
OwnType(m, a) ==
  IF IsPrefix(m, a) THEN Some(SelectedType[InnermostPrefix(m, a)]) ELSE None

\* C4 (as stated): a prefix applies to one operand only: the operand whose
\* descriptor follows the prefix carries Some of the selected type, and every
\* operand decoded without a prefix of its own carries None, whatever came
\* before it.
C4_PrefixAppliesToOneOperand ==
  /\ StepDecoded =>
       \A i \in 1..Len(last.instr.operands) :
         last.instr.operands[i].expanded_type
           = IF IsDescriptorOperand(i)
             THEN OwnType(last.mem0, OperandStart(i))
             ELSE None
  /\ DirectCall =>
       last.op.expanded_type = OwnType(last.mem0, RamAddress(last.r0[R_PC]) + 1)

\* C4 (amended): an operand with a prefix of its own carries Some of the type
\* that prefix selects; a Source or Destination operand without one carries
\* the expanded type of the operand decoded before it, so a prefix is inherited
\* by the operands after it until another prefix replaces it, and None when it
\* is the first operand; a Literal operand carries None.
C4_PrefixIsInherited ==
  /\ StepDecoded =>
       \A i \in 1..Len(last.instr.operands) :
         last.instr.operands[i].expanded_type
           = IF ~ IsDescriptorOperand(i) THEN None
             ELSE IF IsPrefix(last.mem0, OperandStart(i))
             THEN OwnType(last.mem0, OperandStart(i))
             ELSE IF i = 1 THEN None
             ELSE last.instr.operands[i - 1].expanded_type
  /\ DirectCall =>
       last.op.expanded_type = OwnType(last.mem0, RamAddress(last.r0[R_PC]) + 1)

\* A MOV whose source has a prefix and whose register destination has none
\* was executed, and the destination carries the source's expanded type
C4_Witness ==
  /\ StepDecoded
  /\ last.status = "Ok"
  /\ Len(last.instr.operands) = 2
  /\ IsPrefix(last.mem0, OperandStart(1))
  /\ ~ IsPrefix(last.mem0, OperandStart(2))
  /\ last.instr.operands[1].mode = "Register"
  /\ last.instr.operands[2].mode = "Register"
  /\ last.instr.operands[1].expanded_type = Some("SByte")
  /\ last.instr.operands[2].expanded_type = Some("SByte")

\* The last step decoded a MOVW, MOVH or MOVB
StepIsMov == StepDecoded /\ last.instr.mnemonic.opcode \in {132, 134, 135}

\* What the last call returned and left behind
Result == [status |-> last.status, r |-> r, mem |-> mem]

\* The last call changed neither a register nor RAM
NothingChanged == r = last.r0 /\ mem = last.mem0

\* C5: step decodes the instruction at PC; for opcode 0x84, 0x86 or 0x87 it
\* writes the value read_op returns for the first operand to the second
\* operand with write_op; for every other opcode, the unassigned ones and
\* EXTOP (0x14) included, which decode without error, it returns
\* IllegalOpcode.
C5_StepDispatch ==
  last.kind = "step" =>
    /\ last.instr = decode_instruction(last.r0, last.mem0)
    /\ (RamAddress(last.r0[R_PC]) < MemSize /\ FirstByte = 20)
       => last.instr.status = "Ok"
    /\ last.instr.status # "Ok"
       => last.status = last.instr.status /\ NothingChanged
    /\ StepIsMov =>
         /\ last.rd = read_op(last.r0, last.mem0, last.instr.operands[1],
                              overflow_checks)
         /\ IF last.rd.status = "Ok"
            THEN Result = write_op(last.r0, last.mem0, last.instr.operands[2],
                                   last.rd.val, overflow_checks)
            ELSE last.status = last.rd.status /\ NothingChanged
    /\ (StepDecoded /\ ~ StepIsMov)
       => last.status = "IllegalOpcode" /\ NothingChanged

\* A MOVB was executed and changed RAM
C5_Witness ==
  /\ StepIsMov
  /\ last.instr.mnemonic.opcode = 135
  /\ last.status = "Ok"
  /\ last.rd.status = "Ok"
  /\ mem # last.mem0

\* The operand with the expanded type made its intrinsic type
Retyped(op) ==
  [op EXCEPT !.data_type = Unwrap(op.expanded_type), !.expanded_type = None]

\* The bytes at a are one expanded-type prefix followed by a descriptor
HasOnePrefix(m, a) == IsPrefix(m, a) /\ ~ IsPrefix(m, a + 1)

\* The operand op, decoded at a for a mnemonic of width dtype, is the operand
\* the byte after the prefix describes, with the intrinsic type dtype and the
\* expanded type the prefix selects
PrefixedOperand(op, m, a, dtype) ==
  /\ Peek(m, a) % 16 \in {0, 2, 3, 4, 6, 7}
  /\ op.data_type = dtype
  /\ op.expanded_type = Some(SelectedType[Peek(m, a) % 16])
  /\ \E d \in {decode_operand_descriptor(m, dtype, None, Usize(a + 1),
                                          FALSE)} :
       /\ d.status = "Ok"
       /\ op.mode = d.op.mode
       /\ op.register = d.op.register
       /\ op.embedded = d.op.embedded

\* C6: a Source or Destination descriptor byte with high nibble 14 and low
\* nibble r in {0, 2, 3, 4, 6, 7} makes the decoder return the operand the
\* next byte describes, with data_type the mnemonic's width and expanded_type
\* Some of UWord, UHalf, Byte, Word, Half, SByte respectively; read_op and
\* write_op then use the expanded type as the operand's width: they do what
\* they do on the same operand with that type as its intrinsic one.  (The next
\* byte is a descriptor: a prefix before a prefix is undefined.)
C6_ExpandedTypeIsTheWidth ==
  /\ (DirectCall /\ HasOnePrefix(last.mem0, RamAddress(last.r0[R_PC]) + 1)) =>
       /\ PrefixedOperand(last.op, last.mem0, RamAddress(last.r0[R_PC]) + 1,
                          last.dtype)
       /\ last.kind = "read_op" =>
            last.rd = read_op(last.r0, last.mem0, Retyped(last.op),
                              overflow_checks)
       /\ last.kind = "write_op" =>
            Result = write_op(last.r0, last.mem0, Retyped(last.op), last.val,
                              overflow_checks)
  /\ StepDecoded =>
       \A i \in 1..Len(last.instr.operands) :
         (IsDescriptorOperand(i) /\ HasOnePrefix(last.mem0, OperandStart(i)))
         => /\ PrefixedOperand(last.instr.operands[i], last.mem0,
                               OperandStart(i), last.instr.mnemonic.dtype)
            /\ (StepIsMov /\ i = 1) =>
                 last.rd = read_op(last.r0, last.mem0,
                                   Retyped(last.instr.operands[1]),
                                   overflow_checks)
            /\ (StepIsMov /\ i = 2 /\ last.rd.status = "Ok") =>
                 Result = write_op(last.r0, last.mem0,
                                   Retyped(last.instr.operands[2]),
                                   last.rd.val, overflow_checks)

\* read_op was called on {sbyte}%r0 of a word instruction with a register
\* whose low byte is negative, and returned that byte sign-extended
C6_Witness ==
  /\ last.kind = "read_op"
  /\ last.dtype = "Word"
  /\ HasOnePrefix(last.mem0, RamAddress(last.r0[R_PC]) + 1)
  /\ last.op.mode = "Register"
  /\ last.op.data_type = "Word"
  /\ last.op.expanded_type = Some("SByte")
  /\ last.rd = OkVal(W(65535, 65535))
  /\ last.r0[Unwrap(last.op.register)] = W(65535, 33023)

\* The 32-bit two's complement sign extension of the low 8 bits b
SignExtend8(b) == IF b >= 128 THEN W(65535, 65280 + b) ELSE W(0, b)

\* The 32-bit two's complement sign extension of the low 16 bits h
SignExtend16(h) == IF h >= 32768 THEN W(65535, h) ELSE W(0, h)

\* The effective width of an operand: expanded if present, else intrinsic
EffectiveWidth(op) ==
  IF op.expanded_type # None THEN op.expanded_type[1] ELSE op.data_type

\* The addressing modes that read no memory
NonMemoryModes ==
  {"Register", "PositiveLiteral", "NegativeLiteral", "WordImmediate",
   "HalfwordImmediate", "ByteImmediate"}

\* What the specification says read_op returns for a non-memory operand
NonMemoryRead(regs, op) ==
  LET v == IF op.mode = "Register" THEN regs[op.register[1]] ELSE op.embedded
      t == EffectiveWidth(op)
  IN
  CASE op.mode = "Register" /\ t \in {"Word", "UWord"} -> OkVal(v)
    [] op.mode = "Register" /\ t = "Half" -> OkVal(SignExtend16(v.lo))
    [] op.mode = "Register" /\ t = "UHalf" -> OkVal(W(0, v.lo))
    [] op.mode = "Register" /\ t = "Byte" -> OkVal(W(0, v.lo % 256))
    [] op.mode = "Register" /\ t = "SByte" -> OkVal(SignExtend8(v.lo % 256))
    [] op.mode = "Register" /\ t = "None" -> ErrVal("IllegalOpcode")
    [] op.mode \in {"PositiveLiteral", "NegativeLiteral", "ByteImmediate"} ->
         OkVal(SignExtend8(v.lo % 256))
    [] op.mode = "HalfwordImmediate" -> OkVal(SignExtend16(v.lo))
    [] op.mode = "WordImmediate" -> OkVal(v)

\* A literal operand's value is in the range of its descriptor bytes:
\* 0..63 for 0x00-0x3F, -16..-1 for 0xF0-0xFF
LiteralInRange(op, rd) ==
  /\ op.mode = "PositiveLiteral" =>
       rd.val.hi = 0 /\ rd.val.lo \in 0..63
  /\ op.mode = "NegativeLiteral" =>
       rd.val.hi = 65535 /\ rd.val.lo \in (65536 - 16)..(65536 - 1)

\* C7: read_op on a non-memory operand changes no register and returns: for
\* Register, R[r] through the effective width (Word/UWord the 32 bits, Half
\* the low 16 sign-extended, UHalf the low 16 zero-extended, Byte the low 8
\* zero-extended, SByte the low 8 sign-extended, any other width
\* IllegalOpcode); for the literals the sign-extended low byte of embedded
\* (0..63, -16..-1); for WordImmediate embedded; for HalfwordImmediate its low
\* 16 bits sign-extended; for ByteImmediate its low 8 bits sign-extended.
C7_ReadNonMemoryOperand ==
  /\ (last.kind = "read_op" /\ last.op.mode \in NonMemoryModes) =>
       /\ last.rd = NonMemoryRead(last.r0, last.op)
       /\ LiteralInRange(last.op, last.rd)
       /\ last.status = last.rd.status
       /\ r = last.r0
  /\ (StepIsMov /\ last.instr.operands[1].mode \in NonMemoryModes) =>
       /\ last.rd = NonMemoryRead(last.r0, last.instr.operands[1])
       /\ LiteralInRange(last.instr.operands[1], last.rd)

\* read_op was called on a Register operand of width Byte whose register has
\* a low byte of 0xFF and other bits set, and returned 0xFF
C7_Witness ==
  /\ last.kind = "read_op"
  /\ last.op.mode = "Register"
  /\ last.op.expanded_type = None
  /\ last.op.data_type = "Byte"
  /\ last.r0[last.op.register[1]] = W(65535, 33023)
  /\ last.rd = OkVal(W(0, 255))
  /\ r = last.r0

\* a + b modulo 2^32
WrapAdd(a, b) ==
  LET lo == a.lo + b.lo
      hi == a.hi + b.hi + (lo \div 65536)
  IN W(hi % 65536, lo % 65536)

\* The little-endian halfword and word a RAM holds at address a
HalfAt(m, a) == Peek(m, a) + 256 * Peek(m, a + 1)
WordAt(m, a) == W(HalfAt(m, a + 2), HalfAt(m, a))

\* The addressing modes of the form base + displacement, deferred or not
DisplacementModes ==
  {"ByteDisplacement", "HalfwordDisplacement", "WordDisplacement",
   "FPShortOffset", "APShortOffset", "ByteDisplacementDeferred",
   "HalfwordDisplacementDeferred", "WordDisplacementDeferred"}

\* The deferred modes
DeferredModes ==
  {"ByteDisplacementDeferred", "HalfwordDisplacementDeferred",
   "WordDisplacementDeferred", "AbsoluteDeferred"}

\* The memory modes
MemoryModes ==
  DisplacementModes \cup {"RegisterDeferred", "Absolute", "AbsoluteDeferred"}

\* The base of a displacement mode
BaseOf(regs, op) ==
  CASE op.mode = "FPShortOffset" -> regs[R_FP]
    [] op.mode = "APShortOffset" -> regs[R_AP]
    [] OTHER -> regs[op.register[1]]

\* The sign-extended displacement of a displacement mode
DisplacementOf(op) ==
  CASE op.mode \in {"WordDisplacement", "WordDisplacementDeferred"} ->
         op.embedded
    [] op.mode \in {"HalfwordDisplacement", "HalfwordDisplacementDeferred"} ->
         SignExtend16(op.embedded.lo)
    [] OTHER -> SignExtend8(op.embedded.lo % 256)

\* The address a memory mode computes, before a deferred mode's indirection
ComputedAddress(regs, op) ==
  CASE op.mode = "RegisterDeferred" -> regs[op.register[1]]
    [] op.mode \in {"Absolute", "AbsoluteDeferred"} -> op.embedded
    [] OTHER -> WrapAdd(BaseOf(regs, op), DisplacementOf(op))

\* The effective address: for a deferred mode the word stored at the computed
\* address, else the computed address
EffectiveAddressOf(regs, m, op) ==
  IF op.mode \in DeferredModes
  THEN WordAt(m, RamAddress(ComputedAddress(regs, op)))
  ELSE ComputedAddress(regs, op)

\* The value of the operand's effective width at address a, extended
ValueAt(m, a, t) ==
  CASE t \in {"Word", "UWord"} -> WordAt(m, a)
    [] t = "Half" -> SignExtend16(HalfAt(m, a))
    [] t = "UHalf" -> W(0, HalfAt(m, a))
    [] t = "Byte" -> W(0, Peek(m, a))
    [] t = "SByte" -> SignExtend8(Peek(m, a))

\* What the specification says a successful read_op of a memory operand returns
MemoryRead(regs, m, op) ==
  ValueAt(m, RamAddress(EffectiveAddressOf(regs, m, op)), EffectiveWidth(op))

\* The last step ran the program 87 D2 30 43 (MOVB *0x30(%r2),%r3) with the
\* word at R2 + 0x30 holding the address of a byte 0xAA
DeferredScenario ==
  /\ last.kind = "step"
  /\ last.r0[R_PC] = W(0, 0)
  /\ \A i \in 0..3 : Peek(last.mem0, i) = <<135, 210, 48, 67>>[i + 1]
  /\ last.r0[2] = W(0, 768)
  /\ Peek(last.mem0, RamAddress(WordAt(last.mem0, 768 + 48))) = 170

\* C8: a read_op of a memory-mode operand that succeeds returns the bus value
\* of the operand's effective width at the effective address, with the
\* matching extension (Word/UWord the word, Half the halfword sign-extended,
\* UHalf the halfword zero-extended, Byte the byte zero-extended, SByte the
\* byte sign-extended); for a deferred mode the address read is the word
\* stored at the computed address, so MOVB *0x30(%r2),%r3 with the word at
\* R2 + 0x30 pointing at a byte 0xAA leaves 0xAA in the low byte of R3.
C8_ReadMemoryOperand ==
  /\ (/\ last.kind = "read_op"
      /\ last.op.mode \in MemoryModes
      /\ last.rd.status = "Ok")
     => last.rd.val = MemoryRead(last.r0, last.mem0, last.op)
  /\ (/\ StepIsMov
      /\ last.instr.operands[1].mode \in MemoryModes
      /\ last.rd.status = "Ok")
     => last.rd.val = MemoryRead(last.r0, last.mem0, last.instr.operands[1])
  /\ DeferredScenario => last.status = "Ok" /\ r[3].lo % 256 = 170

\* The step of MOVB *0x30(%r2),%r3 was made, through a pointer at 0x330 to
\* the byte 0xAA at 0x340
C8_Witness ==
  /\ DeferredScenario
  /\ last.instr.operands[1].mode = "ByteDisplacementDeferred"
  /\ WordAt(last.mem0, 816) = W(0, 832)
  /\ last.rd = OkVal(W(0, 170))
  /\ r[3] = W(0, 170)

\* The effective address the last call computed for its displacement-mode
\* operand, when the call was effective_address
C9_Call ==
  /\ last.kind = "effective_address"
  /\ last.decoded
  /\ last.op.mode \in DisplacementModes

\* C9: for every base and displacement effective_address computes
\* (base + sign-extended displacement) modulo 2^32 for the ByteDisplacement,
\* HalfwordDisplacement, WordDisplacement, FPShortOffset and APShortOffset
\* modes and for the address computation of their deferred variants: the
\* addition wraps and the call never aborts or fails when the unsigned sum
\* exceeds 32 bits; base 0x300 with byte displacement 0xFF gives 0x2FF.
C9_AddressAdditionWraps ==
  C9_Call =>
    /\ last.status # "Panic"
    /\ last.op.mode \notin DeferredModes =>
         last.ea = OkVal(ComputedAddress(last.r0, last.op))
    /\ (/\ last.op.mode \in DeferredModes
        /\ RamAddress(ComputedAddress(last.r0, last.op)) + 3 < MemSize
        /\ RamAddress(ComputedAddress(last.r0, last.op)) % 4 = 0)
       => last.ea = OkVal(WordAt(last.mem0,
                                 RamAddress(ComputedAddress(last.r0, last.op))))

\* Number of bytes of a data width; the width None has none
WidthBytes(t) ==
  CASE t \in {"Word", "UWord"} -> 4
    [] t \in {"Half", "UHalf"} -> 2
    [] t \in {"Byte", "SByte"} -> 1
    [] OTHER -> 0

\* Byte k (0 the lowest) of a 32-bit value
ByteOf(val, k) ==
  CASE k = 0 -> val.lo % 256
    [] k = 1 -> val.lo \div 256
    [] k = 2 -> val.hi % 256
    [] k = 3 -> val.hi \div 256

\* RAM m1 is RAM m0 with the n low bytes of val stored from address a on,
\* lowest byte first, and nothing else changed
StoredAt(m1, m0, a, n, val) ==
  \A x \in DOMAIN m1 \cup DOMAIN m0 \cup (a..(a + n - 1)) :
    Peek(m1, x) = IF x \in a..(a + n - 1) THEN ByteOf(val, x - a)
                  ELSE Peek(m0, x)

\* What the specification says a write of val to operand op leaves behind:
\* the call returned Ok
Written(op, val) ==
  IF op.mode = "Register"
  THEN /\ r = [last.r0 EXCEPT ![op.register[1]] = val]
       /\ mem = last.mem0
  ELSE /\ r = last.r0
       /\ StoredAt(mem, last.mem0,
                   RamAddress(EffectiveAddressOf(last.r0, last.mem0, op)),
                   WidthBytes(EffectiveWidth(op)), val)

\* The operand is one write_op stores to
Writable(op) == op.mode \in MemoryModes \cup {"Register"}

\* The last step ran 87 E7 40 E2 C1 04 (MOVB {sbyte}%r0,{uhalf}4(%r1)) with
\* R0 = 0x1F and R1 = 0x300
WriteScenario ==
  /\ last.kind = "step"
  /\ last.r0[R_PC] = W(0, 0)
  /\ \A i \in 0..5 :
       Peek(last.mem0, i) = <<135, 231, 64, 226, 193, 4>>[i + 1]
  /\ last.r0[0] = W(0, 31)
  /\ last.r0[1] = W(0, 768)

\* C10: a write_op that succeeds on a memory-mode operand writes at the
\* effective address exactly the bytes of the effective width (the 32 bits
\* of the value for Word/UWord, its low 16 for Half/UHalf, its low 8 for
\* Byte/SByte) and changes no register; on a Register operand it stores the
\* full 32-bit value in R[r] whatever the width and changes no memory; so
\* MOVB {sbyte}%r0,{uhalf}4(%r1) with R0 = 0x1F and R1 = 0x300 leaves 0x1F in
\* the byte at 0x304.
C10_WriteOperand ==
  /\ (last.kind = "write_op" /\ Writable(last.op)) =>
       /\ last.status = "Ok" => Written(last.op, last.val)
       /\ last.op.mode # "Register" => r = last.r0
  /\ (StepIsMov /\ last.rd.status = "Ok"
        /\ Writable(last.instr.operands[2])) =>
       /\ last.status = "Ok" => Written(last.instr.operands[2], last.rd.val)
       /\ last.instr.operands[2].mode # "Register" => r = last.r0
  /\ WriteScenario => last.status = "Ok" /\ Peek(mem, 772) = 31

\* The step of MOVB {sbyte}%r0,{uhalf}4(%r1) was made: the halfword at 0x304,
\* 0x817F before, holds 0x001F, and the halfword after it is as it was
C10_Witness ==
  /\ WriteScenario
  /\ last.status = "Ok"
  /\ HalfAt(last.mem0, 772) = 33151
  /\ HalfAt(mem, 772) = 31
  /\ HalfAt(mem, 774) = HalfAt(last.mem0, 774)
  /\ r = last.r0

\* The modes write_op refuses: the literals and the immediates
NotWritableModes ==
  {"PositiveLiteral", "NegativeLiteral", "ByteImmediate",
   "HalfwordImmediate", "WordImmediate"}

\* The modes that denote no memory
NotMemoryModes == NotWritableModes \cup {"Register", "None", "Expanded"}

\* C11: write_op on a PositiveLiteral, NegativeLiteral, ByteImmediate,
\* HalfwordImmediate or WordImmediate operand, and effective_address on any
\* mode that does not denote memory (Register, the literals and immediates,
\* None, Expanded), return IllegalOpcode and leave every register and every
\* memory byte unchanged.
C11_IllegalOperandModes ==
  /\ (last.kind = "write_op" /\ last.op.mode \in NotWritableModes)
     => last.status = "IllegalOpcode" /\ NothingChanged
  /\ (StepIsMov /\ last.rd.status = "Ok"
        /\ last.instr.operands[2].mode \in NotWritableModes)
     => last.status = "IllegalOpcode" /\ NothingChanged
  /\ (last.kind = "effective_address" /\ last.op.mode \in NotMemoryModes)
     => /\ last.ea.status = "IllegalOpcode"
        /\ last.status = "IllegalOpcode"
        /\ NothingChanged

\* effective_address was called on an operand of mode Expanded and returned
\* IllegalOpcode
C11_Witness ==
  /\ last.kind = "effective_address"
  /\ last.op.mode = "Expanded"
  /\ last.status = "IllegalOpcode"
  /\ NothingChanged
\* The registers reset assigns
ResetRegisters == {R_PCBP, R_PSW, R_PC, R_SP}

\* PSW word w with the I bit (bit 7) cleared, the ISC field (bits 3 to 6)
\* holding 3, and every other bit kept
PswAfterReset(w) == W(w.hi, (w.lo \div 256) * 256 + 24 + (w.lo % 8))

\* Word w has the I bit set
HasIBit(w) == (w.lo \div 128) % 2 = 1

\* C12: after a successful reset, with P the word read at physical address
\* 0x80 and W the word read at P: PC holds the word at P+4, SP holds the word
\* at P+8, PSW holds W with the I bit cleared, the ISC field set to 3 and all
\* other bits kept, PCBP holds P+12 if W had the I bit set and P otherwise,
\* and the other twelve registers are unchanged.
C12_ResetLoadsControlBlock ==
  (last.kind = "reset" /\ last.status = "Ok") =>
    \E P \in {WordAt(last.mem0, 128)} :
      \E Wd \in {WordAt(last.mem0, RamAddress(P))} :
        /\ r[R_PC] = WordAt(last.mem0, RamAddress(P) + 4)
        /\ r[R_SP] = WordAt(last.mem0, RamAddress(P) + 8)
        /\ r[R_PSW] = PswAfterReset(Wd)
        /\ r[R_PCBP] = IF HasIBit(Wd) THEN WrapAdd(P, W(0, 12)) ELSE P
        /\ \A i \in (0..15) \ ResetRegisters : r[i] = last.r0[i]
        /\ mem = last.mem0

\* reset succeeded on the control block at 0x300, whose PSW word 0x1234FF80
\* has the I bit set: PSW is 0x1234FF18 and PCBP is 0x30C
C12_Witness ==
  /\ last.kind = "reset"
  /\ last.status = "Ok"
  /\ WordAt(last.mem0, 128) = W(0, 768)
  /\ last.r0[R_PSW] = W(65535, 65535)
  /\ r[R_PSW] = W(4660, 65304)
  /\ r[R_PCBP] = W(0, 780)
  /\ r[R_PC] = W(43981, 33151)
\* The four condition flag setters
FlagSetters == {"set_n_flag", "set_z_flag", "set_v_flag", "set_c_flag"}

\* The bit of the upper PSW half each setter owns: N is 0x200000, Z is
\* 0x100000, V is 0x080000, C is 0x040000
FlagBit(kind) ==
  CASE kind = "set_n_flag" -> 32
    [] kind = "set_z_flag" -> 16
    [] kind = "set_v_flag" -> 8
    [] kind = "set_c_flag" -> 4
    [] OTHER -> 1

\* Halfword h with the bit of value b set or cleared, the other bits kept
WithBit(h, b, set) == h - ((h \div b) % 2) * b + (IF set THEN b ELSE 0)

\* The registers of a new Cpu after all four flags were set, and after all
\* four were then cleared
AllFlagsSet ==
  set_n_flag(set_z_flag(set_v_flag(set_c_flag(NewRegisters, TRUE), TRUE),
                        TRUE), TRUE)
AllFlagsCleared ==
  set_n_flag(set_z_flag(set_v_flag(set_c_flag(AllFlagsSet, FALSE), FALSE),
                        FALSE), FALSE)

\* C13: set_n_flag, set_z_flag, set_v_flag and set_c_flag each set or clear
\* exactly their own PSW bit (N 0x200000, Z 0x100000, V 0x080000, C 0x040000)
\* and leave every other PSW bit unchanged, for any PSW value and any sequence
\* of calls, and leave the other registers unchanged; starting from PSW 0,
\* setting all four and then clearing all four gives PSW 0.
C13_FlagSettersTouchOneBit ==
  /\ last.kind \in FlagSetters =>
       /\ r[R_PSW] = W(WithBit(last.r0[R_PSW].hi, FlagBit(last.kind),
                               last.set),
                       last.r0[R_PSW].lo)
       /\ \A i \in (0..15) \ {R_PSW} : r[i] = last.r0[i]
  /\ AllFlagsSet[R_PSW] = W(60, 0)
  /\ AllFlagsCleared = NewRegisters

\* set_v_flag(false) was called on a PSW of all ones, after at least one
\* other call, and cleared bit 0x080000 alone
C13_Witness ==
  /\ last.kind = "set_v_flag"
  /\ ~last.set
  /\ calls > 1
  /\ last.r0[R_PSW] = W(65535, 65535)
  /\ r[R_PSW] = W(65527, 65535)
\* The ISC field (bits 3 to 6, mask 0x78) of the lower PSW half
IscField(lo) == (lo \div 8) % 16

\* C14: set_isc(v) makes the PSW ISC field (mask 0x78) equal to (v mod 16)
\* shifted left by 3 and leaves every other PSW bit unchanged: for v in 0..15
\* the field becomes v << 3, and set_isc(16) makes the field 0.
C14_SetIscMasksItsArgument ==
  last.kind = "set_isc" =>
    /\ IscField(r[R_PSW].lo) = last.val.lo % 16
    /\ r[R_PSW].lo - 8 * IscField(r[R_PSW].lo)
         = last.r0[R_PSW].lo - 8 * IscField(last.r0[R_PSW].lo)
    /\ r[R_PSW].hi = last.r0[R_PSW].hi
    /\ \A i \in (0..15) \ {R_PSW} : r[i] = last.r0[i]
    /\ (last.val.hi = 0 /\ last.val.lo < 16 /\ last.r0 = NewRegisters)
         => r[R_PSW] = W(0, 8 * last.val.lo)
    /\ last.val = W(0, 16) => IscField(r[R_PSW].lo) = 0

\* As in the test can_set_isc_flag: set_isc(16) on a PSW whose ISC field
\* held 14 and whose other bits were clear leaves PSW 0
C14_Witness ==
  /\ last.kind = "set_isc"
  /\ last.val = W(0, 16)
  /\ last.r0[R_PSW] = W(0, 112)
  /\ r[R_PSW] = W(0, 0)
\* Byte x has the bit of value m set
Bit(x, m) == (x \div m) % 2 = 1

\* The last call was a byte write to the register at offset
WroteTo(offset) ==
  last.kind = "write_byte" /\ last.address = START_ADDR + offset

\* The last call was a byte read of the register at offset
ReadFrom(offset) ==
  last.kind = "read_byte" /\ last.address = START_ADDR + offset

\* Port 0 before the last call, and now
Port0Before == last.d0.ports[0]
Port0 == duart.ports[0]

\* MR2 bits 7:6 of a port equal 2
Loopback(port) == port.mode[2] \div 64 = 2

\* C15: after a byte b is written to THRA, a call to service made before the
\* deadline now + char_delay changes nothing, and the first call to service
\* made at or after the deadline sets TXR and TXE in port-0 status, ETX in
\* port-0 configuration, ISTS_TAI in ISR and TX_INT in the interrupt vector,
\* clears tx_pending, and either invokes the transmit callback exactly once
\* with b or, in loopback (MR2 bits 7:6 of port 0 equal 2), does not invoke
\* it and copies b into port-0 rx_data and sets RXR, ISTS_RAI and RX_INT.
C15_ServiceCompletesTransmission ==
  /\ WroteTo(15) =>
       /\ Port0.tx_data = last.val
       /\ Port0.tx_pending
       /\ Port0.next_tx = now + Port0Before.char_delay
  /\ (last.kind = "service" /\ Port0Before.tx_pending
        /\ now < Port0Before.next_tx) =>
       duart = last.d0 /\ sent = last.sent0
  /\ (last.kind = "service" /\ Port0Before.tx_pending
        /\ now >= Port0Before.next_tx) =>
       /\ Bit(Port0.stat, 4) /\ Bit(Port0.stat, 8)
       /\ Bit(Port0.conf, 1)
       /\ Bit(duart.istat, 1)
       /\ Bit(duart.ivec, 16)
       /\ ~Port0.tx_pending
       /\ IF Loopback(Port0Before)
          THEN /\ sent = last.sent0
               /\ Port0.rx_data = Port0Before.tx_data
               /\ Bit(Port0.stat, 1)
               /\ Bit(duart.istat, 2)
               /\ Bit(duart.ivec, 32)
          ELSE sent = last.sent0 \o <<Port0Before.tx_data>>

\* service was called at the very deadline of a pending 0x42, out of
\* loopback, and the callback was given 0x42
C15_Witness ==
  /\ last.kind = "service"
  /\ Port0Before.tx_pending
  /\ Port0Before.tx_data = 66
  /\ now = Port0Before.next_tx
  /\ ~Loopback(Port0Before)
  /\ ~Port0.tx_pending
  /\ sent = <<66>>
\* The device before the last call with port 0's char_delay replaced
WithCharDelay(delay) == [last.d0 EXCEPT !.ports[0].char_delay = delay]

\* C16: a byte write of v to CSRA sets port 0's per-character delay to the
\* entry of baud table A indexed by the high nibble of v when ACR bit 7 is
\* clear, and of table B when ACR bit 7 is set, and changes nothing else; in
\* particular writing 0xFF to CSRA with ACR bit 7 clear completes and makes
\* the port-0 char_delay 260_416 ns.
C16_CsraSelectsCharDelay ==
  WroteTo(7) =>
    /\ last.status = "Ok"
    /\ sent = last.sent0
    /\ last.val \div 16 < 13 =>
         duart = WithCharDelay(IF Bit(last.d0.acr, 128)
                               THEN DELAY_RATES_B[last.val \div 16 + 1]
                               ELSE DELAY_RATES_A[last.val \div 16 + 1])
    /\ (last.val = 255 /\ ~Bit(last.d0.acr, 128)) =>
         duart = WithCharDelay(260416)
\* C17: rx_char(c) on port 0 is two-phase: the first call after a quiet
\* period (rx_pending false) never delivers, it sets next_rx = now +
\* char_delay, sets rx_pending and returns ReceiverNotReady with rx_data and
\* status unchanged; a call while pending and before the deadline returns
\* ReceiverNotReady and changes nothing; a later call made after the deadline
\* delivers the character passed to that call (rx_data = c, RXR, ISTS_RAI and
\* RX_INT set, rx_pending cleared) if the port-0 receiver is enabled, and
\* otherwise sets OER without latching c.
C17_RxCharTwoPhase ==
  last.kind = "rx_char" =>
    /\ ~Port0Before.rx_pending =>
         /\ last.status = "ReceiverNotReady"
         /\ duart = [last.d0 EXCEPT
                       !.ports[0].next_rx = now + Port0Before.char_delay,
                       !.ports[0].rx_pending = TRUE]
    /\ (Port0Before.rx_pending /\ now < Port0Before.next_rx) =>
         /\ last.status = "ReceiverNotReady"
         /\ duart = last.d0
    /\ (Port0Before.rx_pending /\ now > Port0Before.next_rx
          /\ Bit(Port0Before.conf, 2)) =>
         /\ last.status = "Ok"
         /\ Port0.rx_data = last.val
         /\ Bit(Port0.stat, 1)
         /\ Bit(duart.istat, 2)
         /\ Bit(duart.ivec, 32)
         /\ ~Port0.rx_pending
    /\ (Port0Before.rx_pending /\ now > Port0Before.next_rx
          /\ ~Bit(Port0Before.conf, 2)) =>
         /\ Bit(Port0.stat, 16)
         /\ Port0.rx_data = Port0Before.rx_data
    /\ sent = last.sent0

\* rx_char(0xFF) was called after the deadline armed by an earlier
\* rx_char(0x41), with the receiver enabled, and 0xFF was latched
C17_Witness ==
  /\ last.kind = "rx_char"
  /\ last.val = 255
  /\ Port0Before.rx_pending
  /\ now > Port0Before.next_rx
  /\ Bit(Port0Before.conf, 2)
  /\ Port0Before.rx_data = 0
  /\ Port0.rx_data = 255
  /\ ~Port0.rx_pending
\* The last call wrote a non-zero command byte to CRA or CRB
CommandCall == (WroteTo(11) \/ WroteTo(43)) /\ last.val # 0

\* The port the last command was for, and the other port
CommandPort == IF WroteTo(11) THEN 0 ELSE 1
OtherPort == 1 - CommandPort

\* Bits 6:4 of the last command
ExtraBits == (last.val \div 16) % 8

\* The mask m has the same bit in bytes x and y
SameBit(x, y, m) == Bit(x, m) <=> Bit(y, m)

\* What C18 says of the interrupt bits and of the other port: transmitter
\* commands leave TX_INT and ISTS_TAI alone on port 1, a receiver disable
\* clears RX_INT and ISTS_RAI for port 0 and KEYBOARD_INT and ISTS_RBI for
\* port 1, and the other port keeps its mode, status and configuration
CommandInterruptsAndOtherPort ==
  /\ CommandPort = 1 =>
       /\ SameBit(duart.ivec, last.d0.ivec, 16)
       /\ SameBit(duart.istat, last.d0.istat, 1)
  /\ Bit(last.val, 2) =>
       IF CommandPort = 0
       THEN /\ ~Bit(duart.ivec, 32) /\ ~Bit(duart.istat, 2)
            /\ SameBit(duart.ivec, last.d0.ivec, 4)
            /\ SameBit(duart.istat, last.d0.istat, 32)
       ELSE /\ ~Bit(duart.ivec, 4) /\ ~Bit(duart.istat, 32)
            /\ SameBit(duart.ivec, last.d0.ivec, 32)
            /\ SameBit(duart.istat, last.d0.istat, 2)
  /\ duart.ports[OtherPort].mode = last.d0.ports[OtherPort].mode
  /\ duart.ports[OtherPort].stat = last.d0.ports[OtherPort].stat
  /\ duart.ports[OtherPort].conf = last.d0.ports[OtherPort].conf

\* C18 as stated: for every non-zero command byte written to CRA or CRB: if
\* DTX (0x08) is set the port's transmitter is disabled (ETX configuration,
\* TXR and TXE cleared) even when ETX (0x04) is also set, and if DRX (0x02)
\* is set the port's receiver is disabled (ERX configuration and RXR cleared)
\* even when ERX (0x01) is also set; the transmitter commands change TX_INT
\* and ISTS_TAI only when the port is port 0, and receiver-disable clears
\* RX_INT and ISTS_RAI for port 0 but KEYBOARD_INT and ISTS_RBI for port 1;
\* the other port's mode, status and configuration are unchanged.
C18_DisableWins ==
  CommandCall =>
    /\ Bit(last.val, 8) =>
         /\ ~Bit(duart.ports[CommandPort].conf, 1)
         /\ ~Bit(duart.ports[CommandPort].stat, 4)
         /\ ~Bit(duart.ports[CommandPort].stat, 8)
    /\ Bit(last.val, 2) =>
         /\ ~Bit(duart.ports[CommandPort].conf, 2)
         /\ ~Bit(duart.ports[CommandPort].stat, 1)
    /\ CommandInterruptsAndOtherPort

\* C18, amended: the disabling holds unless bits 6:4 of the command select
\* the extra action that forces the same bits: with DTX the ETX
\* configuration is cleared, and TXR and TXE are cleared unless bits 6:4
\* equal 3, which sets them; with DRX the ERX configuration and RXR are
\* cleared unless bits 6:4 equal 2, which sets both; the rest is as stated.
C18_DisableWinsBeforeExtra ==
  CommandCall =>
    /\ Bit(last.val, 8) =>
         /\ ~Bit(duart.ports[CommandPort].conf, 1)
         /\ Bit(duart.ports[CommandPort].stat, 4) <=> ExtraBits = 3
         /\ Bit(duart.ports[CommandPort].stat, 8) <=> ExtraBits = 3
    /\ Bit(last.val, 2) =>
         /\ Bit(duart.ports[CommandPort].conf, 2) <=> ExtraBits = 2
         /\ Bit(duart.ports[CommandPort].stat, 1) <=> ExtraBits = 2
    /\ CommandInterruptsAndOtherPort

\* The command 0x0F, with all four bits, was written to CRA while port 0
\* had ETX and ERX configured and RXR set, and left the transmitter and the
\* receiver disabled
C18_Witness ==
  /\ WroteTo(11)
  /\ last.val = 15
  /\ Port0Before.conf = 3
  /\ Bit(Port0Before.stat, 1)
  /\ Port0.conf = 0
  /\ ~Bit(Port0.stat, 1) /\ ~Bit(Port0.stat, 4) /\ ~Bit(Port0.stat, 8)
\* C19: every call to get_interrupt returns None exactly when the interrupt
\* vector byte is zero after the call's vertical-blank check and Some(ivec)
\* otherwise; when at least 16,666,666 ns have passed since last_vblank the
\* call first sets last_vblank to now and sets MOUSE_BLANK_INT (0x02) in the
\* interrupt vector, bit 6 in IPCR and ISTS_IPC in ISR, so such a call never
\* returns None; get_interrupt itself never clears any bit of the interrupt
\* vector.
C19_GetInterruptRunsVblank ==
  last.kind = "get_interrupt" =>
    /\ last.ret = IF duart.ivec = 0 THEN None ELSE Some(duart.ivec)
    /\ now - last.d0.last_vblank >= 16666666 =>
         /\ duart.last_vblank = now
         /\ Bit(duart.ivec, 2)
         /\ Bit(duart.ipcr, 64)
         /\ Bit(duart.istat, 128)
         /\ last.ret # None
    /\ \A k \in 0..7 : Bit(last.d0.ivec, 2 ^ k) => Bit(duart.ivec, 2 ^ k)

\* C19, amended: the vertical blank runs when more than 16,666,666 ns have
\* passed since last_vblank, and then the call sets last_vblank to now and
\* sets MOUSE_BLANK_INT, IPCR bit 6 and ISTS_IPC and never returns None; a
\* call made 16,666,666 ns after last_vblank or earlier changes nothing; the
\* value returned and the interrupt vector's bits are as stated.
C19_GetInterruptRunsVblankLater ==
  last.kind = "get_interrupt" =>
    /\ last.ret = IF duart.ivec = 0 THEN None ELSE Some(duart.ivec)
    /\ now - last.d0.last_vblank > 16666666 =>
         /\ duart.last_vblank = now
         /\ Bit(duart.ivec, 2)
         /\ Bit(duart.ipcr, 64)
         /\ Bit(duart.istat, 128)
         /\ last.ret # None
    /\ now - last.d0.last_vblank <= 16666666 => duart = last.d0
    /\ \A k \in 0..7 : Bit(last.d0.ivec, 2 ^ k) => Bit(duart.ivec, 2 ^ k)
    /\ sent = last.sent0

\* get_interrupt was called 16,666,667 ns after the last vertical blank
\* with an empty interrupt vector, ran the vertical blank and returned
\* Some(0x02)
C19_Witness ==
  /\ last.kind = "get_interrupt"
  /\ now - last.d0.last_vblank = 16666667
  /\ last.d0.ivec = 0
  /\ duart.last_vblank = now
  /\ last.ret = Some(2)
\* C20: a byte read of IPCR/ACR (offset 0x13) returns the IPCR value held
\* before the read, then clears the low nibble of IPCR, sets the whole
\* interrupt vector byte to zero and clears ISTS_IPC in ISR; the other ISR
\* bits, ACR, IMR, the input-port byte and both ports' state are unchanged.
C20_IpcrReadAcknowledges ==
  ReadFrom(19) =>
    /\ last.status = "Ok"
    /\ last.ret = last.d0.ipcr
    /\ duart.ipcr = 16 * (last.d0.ipcr \div 16)
    /\ duart.ivec = 0
    /\ duart.istat = last.d0.istat % 128
    /\ duart.acr = last.d0.acr
    /\ duart.imr = last.d0.imr
    /\ duart.inprt = last.d0.inprt
    /\ duart.ports = last.d0.ports
    /\ sent = last.sent0

\* IPCR was read while it held 0x20, the interrupt vector held KEYBOARD_INT
\* and MOUSE_BLANK_INT and the ISR held ISTS_IPC and ISTS_RBI: the read
\* returned 0x20 and left the vector 0 and the ISR with ISTS_RBI alone
C20_Witness ==
  /\ ReadFrom(19)
  /\ last.d0.ipcr = 32
  /\ last.d0.ivec = 6
  /\ last.d0.istat = 160
  /\ last.ret = 32
  /\ duart.ivec = 0
  /\ duart.istat = 32
\* The offsets of the eleven registers of the register map
RegisterOffsets ==
  {MR12A, CSRA, CRA, THRA, IPCR_ACR, ISR_MASK, MR12B, CSRB, CRB, THRB,
   IP_OPCR}

\* The last call was a byte read or a byte write the bus handed to the device
ByteAccess == last.kind \in {"read_byte", "write_byte"}

\* C21: the device occupies exactly the addresses [0x200000, 0x200040): an
\* access reaches the device only at an address in that interval (the range
\* reported through address_range() holds an address iff it is in the
\* interval), and at every offset of the interval other than the eleven
\* registers a read returns 0 and a read or a write changes nothing.
C21_DeviceOccupiesSixtyFourBytes ==
  ByteAccess =>
    /\ ADDRESS_RANGE(last.address)
         <=> (START_ADDR <= last.address /\ last.address < START_ADDR + 64)
    /\ (last.address - START_ADDR) \in (0..63) \ RegisterOffsets =>
         /\ last.status = "Ok"
         /\ duart = last.d0
         /\ sent = last.sent0
         /\ last.kind = "read_byte" => last.ret = 0
\* The descriptor bytes that name no addressing mode: 5/11, 8..13/11, and
\* 14 with a low nibble that selects no expanded type
IllegalDescriptor(b) ==
  \/ b = 91
  \/ (b \div 16 \in 8..13 /\ b % 16 = 11)
  \/ (b \div 16 = 14 /\ b % 16 \notin {0, 2, 3, 4, 6, 7})

\* The operand at a has such a descriptor byte, first or after one prefix
IllegalAt(m, a) ==
  \/ IllegalDescriptor(Peek(m, a))
  \/ (HasOnePrefix(m, a) /\ ~ IllegalDescriptor(Peek(m, a))
      /\ IllegalDescriptor(Peek(m, a + 1)))

\* The decode of the last step failed with IllegalOpcode and no operand
DecodeRefused ==
  /\ last.instr.status = "IllegalOpcode"
  /\ last.instr.operands = <<>>
  /\ last.status = "IllegalOpcode"
  /\ NothingChanged

\* C22: decoding a Source or Destination descriptor byte returns
\* IllegalOpcode, and produces no operand, for the byte 5/11, for every byte
\* with high nibble in 8..13 and low nibble 11, and for every byte with high
\* nibble 14 whose low nibble is not one of 0, 2, 3, 4, 6, 7: as the operand
\* at PC + 1 decoded on its own, and as the source or the destination of the
\* MOV a step decodes.
C22_IllegalDescriptorBytes ==
  /\ IllegalAt(mem, RamAddress(r[R_PC]) + 1) =>
       \A dtype \in CallWidths : OperandAtPc(dtype) = ErrOp("IllegalOpcode")
  /\ (last.kind = "step" /\ FirstByte \in ProgramOpcodes) =>
       /\ IllegalAt(last.mem0, RamAddress(last.r0[R_PC]) + 1) => DecodeRefused
       /\ \E src \in {decode_operand_descriptor(
                        last.mem0, OPCODES[FirstByte + 1].dtype, None,
                        UsizeAdd(AsUsize(last.r0[R_PC]), 1), FALSE)} :
            (src.status = "Ok"
             /\ IllegalAt(last.mem0, RamAddress(last.r0[R_PC]) + 1 + src.op.size))
            => DecodeRefused

\* A step refused MOVB %r0 with the destination byte 0xEB (14/11)
C22_Witness ==
  /\ last.kind = "step"
  /\ FirstByte = 135
  /\ SecondByte = 64
  /\ Peek(last.mem0, RamAddress(last.r0[R_PC]) + 2) = 235
  /\ DecodeRefused
\* The six modes named displacement: a register plus a displacement read
\* from the stream (the short offsets from FP and AP are not among them)
NamedDisplacementModes ==
  {"WordDisplacement", "WordDisplacementDeferred", "HalfwordDisplacement",
   "HalfwordDisplacementDeferred", "ByteDisplacement",
   "ByteDisplacementDeferred"}

\* The modes that name no register
RegisterlessModes ==
  {"PositiveLiteral", "NegativeLiteral", "ByteImmediate",
   "HalfwordImmediate", "WordImmediate", "Absolute"}

\* The descriptor byte of the operand that starts at a: the first byte that
\* is not an expanded-type prefix
DescriptorByteAt(m, a) ==
  IF ~ IsPrefix(m, a) THEN Peek(m, a)
  ELSE IF ~ IsPrefix(m, a + 1) THEN Peek(m, a + 1)
  ELSE Peek(m, a + 2)

\* The register field of op is what its mode asks for, b being its
\* descriptor byte
RegisterAsNamed(op, b) ==
  /\ op.mode \in {"Register", "RegisterDeferred"} \cup NamedDisplacementModes
       => op.register = Some(b % 16)
  /\ op.mode \in RegisterlessModes => op.register = None

\* C23: for every operand a successful decode produces: if its mode is
\* Register, RegisterDeferred or one of the displacement modes, register is
\* Some(r) with r the low nibble of the descriptor byte; if its mode is
\* PositiveLiteral, NegativeLiteral, ByteImmediate, HalfwordImmediate,
\* WordImmediate or Absolute, or the operand has the Literal role, register
\* is None.
C23_RegisterField ==
  /\ \A dtype \in CallWidths :
       \E d \in {OperandAtPc(dtype)} :
         d.status = "Ok" =>
           RegisterAsNamed(d.op, DescriptorByteAt(mem, RamAddress(r[R_PC]) + 1))
  /\ StepDecoded =>
       \A i \in 1..Len(last.instr.operands) :
         IF IsDescriptorOperand(i)
         THEN RegisterAsNamed(last.instr.operands[i],
                              DescriptorByteAt(last.mem0, OperandStart(i)))
         ELSE last.instr.operands[i].register = None

\* A step decoded SPOPRD2 1,{sbyte}%r0,%r1: a literal without a register and
\* two Register operands with the registers 0 and 1
C23_Witness ==
  /\ StepDecoded
  /\ FirstByte = 3
  /\ Len(last.instr.operands) = 3
  /\ ~ IsDescriptorOperand(1)
  /\ last.instr.operands[1].register = None
  /\ last.instr.operands[2].mode = "Register"
  /\ last.instr.operands[2].register = Some(0)
  /\ last.instr.operands[3].register = Some(1)
\* The register an access at address selects: (address - START_ADDR) as u8
RegisterOffset(address) == (address - START_ADDR) % 256

\* The offsets of a port's mode register and of its command register
ModeOffset(port) == IF port = 0 THEN MR12A ELSE MR12B
CommandOffset(port) == IF port = 0 THEN CRA ELSE CRB

\* The last call read or wrote the mode register of the port
ModeAccess(port) ==
  ByteAccess /\ RegisterOffset(last.address) = ModeOffset(port)

\* The last call wrote to the port a command whose bits 6:4 equal 1
PointerReset(port) == WroteTo(CommandOffset(port)) /\ ExtraBits = 1

\* The bytes written to the mode register in the round trip
ModeBytes == {0, 19, 128, 255}

\* The bytes the two reads of the mode register of the port return after the
\* writes of a then b, from the device d
ModeRoundTrip(d, port, a, b) ==
  LET w1 == Duart_write_byte(d, now, START_ADDR + ModeOffset(port), a)
      w2 == Duart_write_byte(w1.d, now, START_ADDR + ModeOffset(port), b)
      r1 == Duart_read_byte(w2.d, START_ADDR + ModeOffset(port))
      r2 == Duart_read_byte(r1.d, START_ADDR + ModeOffset(port))
  IN <<r1.ret, r2.ret>>

\* C24: each port's mode-register pointer is always 0 or 1, flips on every
\* byte read and every byte write of that port's mode register, is set to 0
\* by a command on that port whose bits 6:4 equal 1, and is changed by no
\* other operation; so after such a command, writing a then b to the mode
\* register and then reading it twice returns a then b.
C24_ModePointer ==
  \A port \in {PORT_0, PORT_1} :
    /\ duart.ports[port].mode_ptr \in {0, 1}
    /\ last.kind # "new" =>
         duart.ports[port].mode_ptr =
           IF ModeAccess(port) THEN 1 - last.d0.ports[port].mode_ptr
           ELSE IF PointerReset(port) THEN 0
           ELSE last.d0.ports[port].mode_ptr
    /\ PointerReset(port) =>
         \A a \in ModeBytes, b \in ModeBytes :
           ModeRoundTrip(duart, port, a, b) = <<a, b>>

\* A command with bits 6:4 = 1 took port 0's pointer from 1 back to 0, and
\* the mode register then holds what is written to it in the order written
C24_Witness ==
  /\ PointerReset(0)
  /\ last.d0.ports[0].mode_ptr = 1
  /\ duart.ports[0].mode_ptr = 0
  /\ ModeRoundTrip(duart, 0, 19, 128) = <<19, 128>>
\* The last step executed a MOV whose destination is register 15
DestinationIsPc ==
  /\ StepIsMov
  /\ last.instr.operands[2].mode = "Register"
  /\ last.instr.operands[2].register = Some(R_PC)

\* This step is a call of step
StepCall == last'.kind = "step" /\ calls' = calls + 1

\* C25: step never advances the program counter: after any call to step,
\* successful or failed, R15 equals its value before the call unless the
\* executed MOV's destination is register 15; so a call to step that follows
\* a call to step, with no set_pc between them, decodes the instruction at
\* the same address again, and the same instruction when the first call
\* wrote nothing to the RAM.
C25_StepKeepsPc ==
  [][StepCall =>
       /\ r'[R_PC] = r[R_PC] \/ DestinationIsPc'
       /\ last.kind = "step" =>
            /\ last'.r0[R_PC] = last.r0[R_PC]
            /\ last'.instr = decode_instruction(last'.r0, last'.mem0)
            /\ mem = last.mem0 => last'.instr = last.instr]_vars

\* MOVW &0x12345678,%r3 was executed a second time: R3 already held the
\* value, and the PC is still where it was
C25_Witness ==
  /\ last.kind = "step"
  /\ last.status = "Ok"
  /\ FirstByte = 132
  /\ last.r0[3] = W(4660, 22136)
  /\ r[3] = W(4660, 22136)
  /\ r[R_PC] = last.r0[R_PC]
\* The last call was a step that returned an error
StepFailed == last.kind = "step" /\ last.status \in {"Bus", "IllegalOpcode"}

\* C26: a call to step that returns an error, a bus error or IllegalOpcode,
\* raised while decoding, while reading the source or while writing the
\* destination, leaves all 16 CPU registers exactly as they were before the
\* call.
C26_FailedStepKeepsRegisters ==
  StepFailed => \A i \in 0..15 : r[i] = last.r0[i]

\* A MOV into %r3, which held 0x11223344, failed with a bus error while its
\* source was read
C26_Witness ==
  /\ StepFailed
  /\ StepIsMov
  /\ last.rd.status = "Bus"
  /\ last.instr.operands[2].mode = "Register"
  /\ last.instr.operands[2].register = Some(3)
  /\ r[3] = W(4386, 13124)
\* The last call was a byte write the device takes as a write of THRA
ThraWrite ==
  last.kind = "write_byte" /\ RegisterOffset(last.address) = THRA

\* C27: the transmit callback is invoked only from within service, at most
\* once per THRA write, and each time with the byte of the most recent THRA
\* write: a call gives the callback a byte only if it is a call of service
\* with a byte pending, it gives it that one byte and leaves none pending;
\* only a THRA write makes a byte pending and only a THRA write changes the
\* byte held; a byte written to THRA while an earlier one is pending replaces
\* it and re-arms the deadline without the callback being invoked, so the
\* earlier byte is never passed to the callback.
C27_CallbackOncePerWrite ==
  last.kind # "new" =>
    /\ sent # last.sent0 =>
         /\ last.kind = "service"
         /\ Port0Before.tx_pending
         /\ sent = last.sent0 \o <<Port0Before.tx_data>>
         /\ ~ Port0.tx_pending
    /\ (Port0.tx_pending /\ ~ Port0Before.tx_pending) => ThraWrite
    /\ Port0.tx_data # Port0Before.tx_data => ThraWrite
    /\ ThraWrite =>
         /\ Port0.tx_data = last.val
         /\ Port0.tx_pending
         /\ Port0.next_tx = now + Port0Before.char_delay
         /\ sent = last.sent0

\* 0x42 was written to THRA at 0 and 0x02 half a character time later; the
\* service call at the second deadline gave the callback 0x02, and 0x42 was
\* never given to it
C27_Witness ==
  /\ last.kind = "service"
  /\ now = 1500000
  /\ Port0Before.next_tx = 1500000
  /\ Port0Before.tx_data = 2
  /\ ~ Port0.tx_pending
  /\ sent = <<2>>
\* The last call was a byte read the device takes as a read of the register
ReadOf(offset) ==
  last.kind = "read_byte" /\ RegisterOffset(last.address) = offset

\* The last call wrote to the port a command with the bit of value m set
CommandWith(port, m) ==
  /\ last.kind = "write_byte"
  /\ RegisterOffset(last.address) = CommandOffset(port)
  /\ Bit(last.val, m)

\* The last call acknowledged the event behind the interrupt bit
Acknowledged(bit) ==
  CASE bit = KEYBOARD_INT -> ReadOf(THRB) \/ CommandWith(1, CMD_DRX)
    [] bit = RX_INT -> ReadOf(THRA) \/ CommandWith(0, CMD_DRX)
    [] bit = TX_INT -> ThraWrite \/ CommandWith(0, CMD_DTX)
    [] OTHER -> FALSE

\* The last call cleared the bit in the interrupt vector
Lost(bit) == Bit(last.d0.ivec, bit) /\ ~ Bit(duart.ivec, bit)

\* C28: a pending port interrupt is not lost: once KEYBOARD_INT, RX_INT or
\* TX_INT is set in the interrupt vector it stays set until the operation
\* that acknowledges that event (a read of THRB or a DRX command on port 1
\* for KEYBOARD_INT; a read of THRA or a DRX command on port 0 for RX_INT; a
\* write of THRA or a DTX command on port 0 for TX_INT), and no other
\* operation clears it.
C28_PortInterruptNotLost ==
  last.kind # "new" =>
    \A bit \in {KEYBOARD_INT, RX_INT, TX_INT} : Lost(bit) => Acknowledged(bit)
\* The last call ran a vertical blank: vertical_blank itself, or a
\* get_interrupt made after the blank was due
RanVerticalBlank ==
  \/ last.kind = "vertical_blank"
  \/ (last.kind = "get_interrupt" /\ VblankDue(last.d0, now))

\* C29: in every reachable state the input-port byte is one of 0x0B, 0x03,
\* 0x09, 0x0A; in particular its bit 2 (0x04) is never set, so the branch of
\* vertical_blank that clears input-port bit 2 is never taken: a vertical
\* blank finds the bit clear and leaves the input-port byte as it is.
C29_InputPortValues ==
  /\ duart.inprt \in {11, 3, 9, 10}
  /\ ~ Bit(duart.inprt, 4)
  /\ RanVerticalBlank =>
       /\ ~ Bit(last.d0.inprt, 4)
       /\ duart.inprt = last.d0.inprt
       /\ Bit(duart.ipcr, 64)

\* A vertical blank ran with button 1 held down (input port 0x09) and left
\* the input port as it was
C29_Witness ==
  /\ RanVerticalBlank
  /\ last.d0.inprt = 9
  /\ duart.inprt = 9
  /\ Bit(duart.ipcr, 64)
\* Port 0 has completed its transmission: nothing pending, TXR, TXE and
\* ISTS_TAI set
TransmissionComplete ==
  /\ ~ Port0.tx_pending
  /\ Bit(Port0.stat, STS_TXR)
  /\ Bit(Port0.stat, STS_TXE)
  /\ Bit(duart.istat, ISTS_TAI)

\* The last call wrote THRA again before the armed deadline was reached
EarlyRewrite ==
  ThraWrite /\ Port0Before.tx_pending /\ now < Port0Before.next_tx

\* The last call was the service call that completed a transmission
Completion ==
  last.kind = "service" /\ Port0Before.tx_pending /\ ~ Port0.tx_pending

\* C30: every write to THRA is eventually followed by completion of a
\* transmission: with service called again and again and the clock
\* advancing, after the k-th THRA write port 0's tx_pending eventually
\* becomes false with TXR, TXE and ISTS_TAI set, unless the next write
\* comes before the armed deadline is reached; such a write puts the
\* deadline one char_delay after itself, and no transmission completes
\* before its deadline.
C30_TransmissionCompletes ==
  /\ \A k \in 0..MaxTransmits :
       (Port0.tx_pending /\ calls = k)
         ~> (TransmissionComplete \/ (calls = k + 1 /\ EarlyRewrite))
  /\ [](EarlyRewrite =>
          /\ Port0.tx_pending
          /\ Port0.next_tx = now + Port0Before.char_delay
          /\ Port0.next_tx >= Port0Before.next_tx)
  /\ [](Completion => now >= Port0Before.next_tx /\ TransmissionComplete)

\* After two writes, the second before the deadline of the first, the
\* service call at the second deadline completed the transmission
C30_Witness ==
  /\ calls = 2
  /\ Completion
  /\ TransmissionComplete
  /\ now = Port0Before.next_tx
  /\ now = 1500000

====
